-------------------------- MODULE IngestionProofs --------------------------
(***************************************************************************)
(* Proofs about Ingestion, for any emails with any headers, any number of  *)
(* requests in progress and any number of crashes.                         *)
(***************************************************************************)
EXTENDS Ingestion, SequenceTheorems, FiniteSetTheorems, TLAPS

-----------------------------------------------------------------------------
(* The headers: every candidate for a parent is an email.                  *)

LEMMA ReverseType ==
  ASSUME NEW S, NEW s \in Seq(S)
  PROVE  Reverse(s) \in Seq(S)
  BY DEF Reverse

LEMMA CandidatesType ==
  ASSUME NEW m \in Mails
  PROVE  ParentCandidates(m) \in Seq(Mails)
  <1>1. Reverse(References[m]) \in Seq(Mails)
    BY IngestionAssumption, ReverseType
  <1>2. (IF InReplyTo[m] = "none" THEN <<>> ELSE <<InReplyTo[m]>>) \in Seq(Mails)
    BY IngestionAssumption
  <1>3. QED
    BY <1>1, <1>2, ConcatProperties DEF ParentCandidates

-----------------------------------------------------------------------------
(* The inductive invariant.                                                *)

(* What a request has read is still true when it writes: the ticket it     *)
(* will join holds the best relative it knew of, and it opens a ticket only*)
(* where it knew of none.                                                  *)
CallSound(c) ==
    LET candidates == ParentCandidates(calls[c].mail) IN
    /\ calls[c].known \subseteq Stored
    /\ calls[c].step = "append" =>
          \E i \in DOMAIN candidates :
             /\ ticketOf[candidates[i]] # 0
             /\ ticketOf[candidates[i]] = calls[c].parent
             /\ \A k \in 1..(i - 1) : candidates[k] \notin calls[c].known
    /\ calls[c].step = "create" =>
          \A i \in DOMAIN candidates : candidates[i] \notin calls[c].known
    /\ calls[c].step = "answer" => ticketOf[calls[c].mail] # 0

MailSound(m) ==
    \A i \in DOMAIN ParentCandidates(m) :
       ParentCandidates(m)[i] \in known[m] =>
          \E k \in 1..i : ticketOf[ParentCandidates(m)[k]] = ticketOf[m]

Sound ==
    /\ \A c \in Calls : CallSound(c)
    /\ \A m \in Stored : MailSound(m)

IInv == TypeOK /\ Sound

-----------------------------------------------------------------------------
(* Type correctness.                                                       *)

LEMMA CallsType ==
  ASSUME NEW c \in Calls, calls \in [Calls -> Call],
         \A d \in Calls : calls[d].step # "idle" => calls[d].mail \in Mails \ DeskMails,
         NEW call \in Call,
         call.step # "idle" => call.mail \in Mails \ DeskMails,
         calls' = [calls EXCEPT ![c] = call]
  PROVE  /\ calls' \in [Calls -> Call]
         /\ \A d \in Calls :
               calls'[d].step # "idle" => calls'[d].mail \in Mails \ DeskMails
  <1>1. calls' \in [Calls -> Call] /\ calls'[c] = call
    BY Zenon
  <1>2. \A d \in Calls : d # c => calls'[d] = calls[d]
    BY Zenon
  <1>3. QED
    BY <1>1, <1>2

LEMMA HangupType ==
  ASSUME TypeOK, NEW c \in Calls, Hangup(c)
  PROVE  /\ calls' \in [Calls -> Call]
         /\ \A d \in Calls :
               calls'[d].step # "idle" => calls'[d].mail \in Mails \ DeskMails
  <1>1. NoCall \in Call /\ NoCall.step = "idle"
    BY DEF NoCall, Call
  <1>2. QED
    BY <1>1, CallsType DEF Hangup, TypeOK

LEMMA GotoType ==
  ASSUME TypeOK, NEW c \in Calls, calls[c].step # "idle",
         NEW step \in {"dedupe", "parent", "append", "create", "answer"},
         Goto(c, step)
  PROVE  /\ calls' \in [Calls -> Call]
         /\ \A d \in Calls :
               calls'[d].step # "idle" => calls'[d].mail \in Mails \ DeskMails
  <1> DEFINE call == [calls[c] EXCEPT !.step = step]
  <1>1. call \in Call /\ call.mail = calls[c].mail
    BY DEF TypeOK, Call
  <1>2. calls' = [calls EXCEPT ![c] = call]
    BY DEF Goto, TypeOK
  <1> HIDE DEF call
  <1>3. QED
    BY <1>1, <1>2, CallsType DEF TypeOK

LEMMA StoreType ==
  ASSUME TypeOK, NEW c \in Calls, calls[c].step # "idle", NEW ticket \in Nat,
         Store(c, ticket), tickets' \in Nat, ticket <= tickets',
         tickets <= tickets', UNCHANGED <<received, crashes>>
  PROVE  TypeOK'
  <1>1. calls[c].mail \in Mails /\ calls[c].known \in SUBSET Mails
    BY DEF TypeOK, Call
  <1>2. known' \in [Mails -> SUBSET Mails]
    BY <1>1 DEF Store, TypeOK
  <1>3. \A m \in Mails : ticketOf[m] \in 0..tickets'
    BY DEF TypeOK
  <1>4. ticketOf' \in [Mails -> 0..tickets']
    BY <1>1, <1>3 DEF Store, TypeOK
  <1>5. QED
    BY <1>2, <1>4, GotoType DEF Store, TypeOK

LEMMA TypeInit == Init => TypeOK
  BY DEF Init, TypeOK, NoCall, Call

LEMMA ParentIsTicket ==
  ASSUME IInv, NEW c \in Calls, calls[c].step = "append"
  PROVE  /\ calls[c].parent \in Nat
         /\ calls[c].parent # 0
         /\ calls[c].parent <= tickets
  <1>1. PICK i \in DOMAIN ParentCandidates(calls[c].mail) :
          /\ ticketOf[ParentCandidates(calls[c].mail)[i]] # 0
          /\ ticketOf[ParentCandidates(calls[c].mail)[i]] = calls[c].parent
    BY DEF IInv, Sound, CallSound
  <1>2. calls[c].mail \in Mails
    BY DEF IInv, TypeOK
  <1>3. ParentCandidates(calls[c].mail)[i] \in Mails
    BY <1>2, CandidatesType
  <1>4. QED
    BY <1>1, <1>3 DEF IInv, TypeOK

LEMMA TypeStep ==
  ASSUME IInv, [Next]_vars
  PROVE  TypeOK'
  <1> USE DEF IInv
  <1>1. ASSUME NEW c \in Calls, Dedupe(c)
        PROVE  TypeOK'
    BY <1>1, GotoType DEF Dedupe, TypeOK
  <1>2. ASSUME NEW c \in Calls, FindParent(c)
        PROVE  TypeOK'
    <2> DEFINE candidates == ParentCandidates(calls[c].mail)
    <2>1. CASE FirstStored(candidates) = {} /\ Goto(c, "create")
      BY <1>2, <2>1, GotoType DEF FindParent, TypeOK
    <2>2. ASSUME NEW i \in FirstStored(candidates),
                 calls' = [calls EXCEPT ![c].step = "append",
                                        ![c].parent = ticketOf[candidates[i]]]
          PROVE  TypeOK'
      <3> DEFINE call == [calls[c] EXCEPT !.step = "append",
                                          !.parent = ticketOf[candidates[i]]]
      <3>1. calls[c].mail \in Mails \ DeskMails
        BY <1>2 DEF FindParent, TypeOK
      <3>2. candidates[i] \in Mails
        BY <3>1, CandidatesType DEF FirstStored
      <3>3. ticketOf[candidates[i]] \in Nat
        BY <3>2 DEF TypeOK
      <3>4. call \in Call /\ call.mail = calls[c].mail
        BY <3>3 DEF TypeOK, Call
      <3>5. calls' = [calls EXCEPT ![c] = call]
        BY <2>2 DEF TypeOK
      <3> HIDE DEF call
      <3>6. /\ calls' \in [Calls -> Call]
            /\ \A d \in Calls :
                  calls'[d].step # "idle" => calls'[d].mail \in Mails \ DeskMails
        BY <3>1, <3>4, <3>5, CallsType DEF TypeOK
      <3>7. QED
        BY <1>2, <3>6 DEF FindParent, TypeOK
    <2>3. QED
      BY <1>2, <2>1, <2>2 DEF FindParent
  <1>3. ASSUME NEW c \in Calls, AppendMessage(c)
        PROVE  TypeOK'
    <2>1. CASE Refused(c)
      BY <1>3, <2>1, HangupType DEF AppendMessage, Refused, TypeOK
    <2>2. CASE Store(c, calls[c].parent) /\ UNCHANGED tickets
      BY <1>3, <2>2, StoreType, ParentIsTicket DEF AppendMessage, TypeOK
    <2>3. QED
      BY <1>3, <2>1, <2>2 DEF AppendMessage
  <1>4. ASSUME NEW c \in Calls, Create(c)
        PROVE  TypeOK'
    <2>1. CASE Refused(c)
      BY <1>4, <2>1, HangupType DEF Create, Refused, TypeOK
    <2>2. CASE Store(c, tickets + 1) /\ tickets' = tickets + 1
      BY <1>4, <2>2, StoreType DEF Create, TypeOK
    <2>3. QED
      BY <1>4, <2>1, <2>2 DEF Create
  <1>5. ASSUME NEW c \in Calls, Answer(c)
        PROVE  TypeOK'
    <2>1. calls[c].mail \in Mails
      BY <1>5 DEF Answer, TypeOK
    <2>2. QED
      BY <1>5, <2>1, HangupType DEF Answer, TypeOK
  <1>6. ASSUME NEW c \in Calls, Crash(c)
        PROVE  TypeOK'
    BY <1>6, HangupType DEF Crash, TypeOK
  <1>7. ASSUME NEW c \in Calls, NEW m \in Mails, Post(c, m)
        PROVE  TypeOK'
    <2> DEFINE call == [step |-> "dedupe", mail |-> m,
                        parent |-> 0, known |-> Stored]
    <2>1. call \in Call /\ call.mail \in Mails \ DeskMails
      BY <1>7 DEF Post, Call, Stored
    <2>2. calls' = [calls EXCEPT ![c] = call]
      BY <1>7 DEF Post
    <2> HIDE DEF call
    <2>3. /\ calls' \in [Calls -> Call]
          /\ \A d \in Calls :
                calls'[d].step # "idle" => calls'[d].mail \in Mails \ DeskMails
      BY <2>1, <2>2, CallsType DEF TypeOK
    <2>4. QED
      BY <1>7, <2>3 DEF Post, TypeOK
  <1>8. ASSUME NEW m \in Mails, DeskReplies(m)
        PROVE  TypeOK'
    <2>1. InReplyTo[m] \in Mails
      BY <1>8, IngestionAssumption DEF DeskReplies
    <2>2. Stored \in SUBSET Mails
      BY DEF Stored
    <2>3. QED
      BY <1>8, <2>1, <2>2 DEF DeskReplies, TypeOK
  <1>9. CASE UNCHANGED vars
    BY <1>9 DEF vars, TypeOK
  <1>10. QED
    BY <1>1, <1>2, <1>3, <1>4, <1>5, <1>6, <1>7, <1>8, <1>9 DEF Next, CallStep

-----------------------------------------------------------------------------
(* What a step leaves as it was.  No message ever leaves its ticket.       *)

Kept == \A m \in Mails : ticketOf[m] # 0 => ticketOf'[m] = ticketOf[m]

LEMMA CallSoundKept ==
  ASSUME TypeOK, Kept, NEW c \in Calls, CallSound(c), calls'[c] = calls[c]
  PROVE  CallSound(c)'
  <1> DEFINE candidates == ParentCandidates(calls[c].mail)
  <1>1. Stored \subseteq Stored'
    BY DEF Kept, Stored, TypeOK
  <1>2. CASE calls[c].step = "append"
    <2>1. PICK i \in DOMAIN candidates :
             /\ ticketOf[candidates[i]] # 0
             /\ ticketOf[candidates[i]] = calls[c].parent
             /\ \A k \in 1..(i - 1) : candidates[k] \notin calls[c].known
      BY <1>2 DEF CallSound
    <2>2. candidates[i] \in Mails
      BY <1>2, CandidatesType DEF TypeOK
    <2>3. ticketOf'[candidates[i]] = ticketOf[candidates[i]]
      BY <2>1, <2>2 DEF Kept
    <2>4. QED
      BY <1>1, <1>2, <2>1, <2>3 DEF CallSound
  <1>3. CASE calls[c].step = "answer"
    BY <1>1, <1>3 DEF CallSound, Kept, TypeOK
  <1>4. CASE calls[c].step \notin {"append", "answer"}
    BY <1>1, <1>4 DEF CallSound
  <1>5. QED
    BY <1>2, <1>3, <1>4

LEMMA MailSoundKept ==
  ASSUME TypeOK, Kept, NEW m \in Stored, MailSound(m), known'[m] = known[m]
  PROVE  MailSound(m)'
  <1> DEFINE candidates == ParentCandidates(m)
  <1>1. m \in Mails /\ ticketOf[m] # 0 /\ ticketOf'[m] = ticketOf[m]
    BY DEF Stored, Kept
  <1>2. candidates \in Seq(Mails)
    BY <1>1, CandidatesType
  <1>3. SUFFICES ASSUME NEW i \in DOMAIN candidates, candidates[i] \in known[m]
                 PROVE  \E k \in 1..i : ticketOf'[candidates[k]] = ticketOf'[m]
    BY DEF MailSound
  <1>4. PICK k \in 1..i : ticketOf[candidates[k]] = ticketOf[m]
    BY <1>3 DEF MailSound
  <1>5. candidates[k] \in Mails
    BY <1>2, <1>3, <1>4
  <1>6. QED
    BY <1>1, <1>4, <1>5 DEF Kept

(* A step that ends or moves one request and stores nothing.               *)
LEMMA SoundWithoutStore ==
  ASSUME IInv, NEW c \in Calls, UNCHANGED <<ticketOf, known>>,
         \A d \in Calls : d # c => calls'[d] = calls[d],
         CallSound(c)'
  PROVE  Sound' /\ Kept
  <1>1. Kept
    BY DEF Kept
  <1>2. \A d \in Calls : CallSound(d)'
    BY <1>1, CallSoundKept DEF IInv, Sound
  <1>3. Stored' = Stored
    BY DEF Stored
  <1>4. \A m \in Stored : MailSound(m)'
    BY <1>1, MailSoundKept DEF IInv, Sound
  <1>5. QED
    BY <1>1, <1>2, <1>3, <1>4 DEF Sound

LEMMA HangupSound ==
  ASSUME TypeOK, NEW c \in Calls, Hangup(c)
  PROVE  /\ CallSound(c)'
         /\ \A d \in Calls : d # c => calls'[d] = calls[d]
  BY DEF Hangup, TypeOK, CallSound, NoCall, Stored

LEMMA GotoOther ==
  ASSUME TypeOK, NEW c \in Calls, NEW step, Goto(c, step)
  PROVE  /\ calls'[c] = [calls[c] EXCEPT !.step = step]
         /\ calls'[c].step = step
         /\ calls'[c].mail = calls[c].mail
         /\ calls'[c].known = calls[c].known
         /\ \A d \in Calls : d # c => calls'[d] = calls[d]
  BY DEF Goto, TypeOK, Call

(* A step that stores the email of a request.                              *)
LEMMA SoundStore ==
  ASSUME IInv, NEW c \in Calls, calls[c].step # "idle",
         ticketOf[calls[c].mail] = 0,
         NEW ticket \in Nat \ {0}, Store(c, ticket),
         \A i \in DOMAIN ParentCandidates(calls[c].mail) :
            ParentCandidates(calls[c].mail)[i] \in calls[c].known =>
               \E k \in 1..i :
                  ticketOf[ParentCandidates(calls[c].mail)[k]] = ticket
  PROVE  Sound' /\ Kept
  <1>1. PICK mail \in Mails : mail = calls[c].mail
    BY DEF IInv, TypeOK
  <1> DEFINE candidates == ParentCandidates(mail)
  <1>2. /\ ticketOf'[mail] = ticket
        /\ known'[mail] = calls[c].known
        /\ \A m \in Mails : m # mail => /\ ticketOf'[m] = ticketOf[m]
                                        /\ known'[m] = known[m]
    BY <1>1 DEF Store, IInv, TypeOK
  <1>3. Kept
    BY <1>1, <1>2 DEF Kept
  <1>4. Goto(c, "answer")
    BY DEF Store
  <1>5. Stored \subseteq Stored' /\ \A m \in Stored' : m # mail => m \in Stored
    BY <1>2, <1>3 DEF Stored, Kept
  <1>6. CallSound(c)'
    <2>1. /\ calls'[c].step = "answer"
          /\ calls'[c].mail = mail
          /\ calls'[c].known = calls[c].known
      BY <1>1, <1>4, GotoOther DEF IInv
    <2>2. calls[c].known \subseteq Stored
      BY DEF IInv, Sound, CallSound
    <2>3. QED
      BY <1>2, <1>5, <2>1, <2>2 DEF CallSound
  <1>7. \A d \in Calls : CallSound(d)'
    BY <1>3, <1>4, <1>6, CallSoundKept, GotoOther DEF IInv, Sound
  <1>8. MailSound(mail)'
    <2>1. SUFFICES ASSUME NEW i \in DOMAIN candidates,
                          candidates[i] \in calls[c].known
                   PROVE  \E k \in 1..i : ticketOf'[candidates[k]] = ticket
      BY <1>2 DEF MailSound
    <2>2. PICK k \in 1..i : ticketOf[candidates[k]] = ticket
      BY <1>1, <2>1
    <2>3. candidates[k] \in Mails
      BY <1>1, <2>1, <2>2, CandidatesType
    <2>4. QED
      BY <1>3, <2>2, <2>3 DEF Kept
  <1>9. \A m \in Stored' : MailSound(m)'
    <2>1. SUFFICES ASSUME NEW m \in Stored', m # mail
                   PROVE  MailSound(m)'
      BY <1>8
    <2>2. m \in Stored /\ known'[m] = known[m]
      BY <1>2, <1>5, <2>1 DEF Stored
    <2>3. QED
      BY <1>3, <2>2, MailSoundKept DEF IInv, Sound
  <1>10. QED
    BY <1>3, <1>7, <1>9 DEF Sound

(* A non-empty set of numbers has a least one, by the well-foundedness of  *)
(* strict inclusion on the intervals that start at 1.                      *)
LEMMA LeastNatural ==
  ASSUME NEW S \in SUBSET Nat, S # {}
  PROVE  \E i \in S : \A k \in S : i <= k
  <1> DEFINE below == StrictSubsetOrdering(Nat)
             finite == FiniteSubsetsOf(Nat)
             T == {1..n : n \in S}
  <1>1. IsWellFoundedOn(below, finite)
    BY FS_StrictSubsetOrderingWellFounded
  <1>2. T \subseteq finite
    BY FS_Interval DEF FiniteSubsetsOf
  <1>3. T # {}
    OBVIOUS
  <1>4. PICK x \in T : \A y \in T : ~ (<<y, x>> \in below)
    <2> HIDE DEF T, below, finite
    <2>1. QED
      BY <1>1, <1>2, <1>3, WFMin
  <1>5. PICK i \in S : x = 1..i
    BY <1>4
  <1>6. ASSUME NEW k \in S, k < i
        PROVE  FALSE
    <2>1. 1..k \subseteq 1..i /\ 1..k # 1..i
      <3>1. i \in 1..i /\ i \notin 1..k
        BY <1>6
      <3>2. QED
        BY <1>6, <3>1
    <2>2. <<1..k, 1..i>> \in below
      BY <2>1 DEF StrictSubsetOrdering
    <2>3. QED
      BY <1>4, <1>5, <2>2
  <1>7. QED
    BY <1>6

(* Where no candidate comes first, none is stored: a non-empty set of      *)
(* positions has a least one.                                              *)
LEMMA NoneStored ==
  ASSUME NEW candidates \in Seq(Mails), FirstStored(candidates) = {}
  PROVE  \A i \in DOMAIN candidates : ticketOf[candidates[i]] = 0
  <1> DEFINE stored == {i \in DOMAIN candidates : ticketOf[candidates[i]] # 0}
  <1>1. SUFFICES ASSUME stored # {}
                 PROVE  FALSE
    OBVIOUS
  <1>2. DOMAIN candidates = 1..Len(candidates) /\ Len(candidates) \in Nat
    OBVIOUS
  <1>3. PICK i \in stored : \A k \in stored : i <= k
    <2>1. stored \in SUBSET Nat
      BY <1>2
    <2> HIDE DEF stored
    <2>2. QED
      BY <1>1, <2>1, LeastNatural
  <1>4. \A k \in 1..(i - 1) : k \notin stored /\ k \in DOMAIN candidates
    BY <1>2, <1>3
  <1>5. i \in FirstStored(candidates)
    BY <1>3, <1>4 DEF FirstStored
  <1>6. QED
    BY <1>5

(* A step of any request, of the provider or of the desk.                  *)
LEMMA SoundStep ==
  ASSUME IInv, [Next]_vars
  PROVE  Sound' /\ Kept
  <1>1. ASSUME NEW c \in Calls, Dedupe(c)
        PROVE  Sound' /\ Kept
    <2>1. CallSound(c)
      BY DEF IInv, Sound
    <2>2. CallSound(c)'
      <3>1. CASE ticketOf[calls[c].mail] # 0
        BY <1>1, <2>1, <3>1, GotoOther DEF Dedupe, IInv, CallSound, Stored
      <3>2. CASE ticketOf[calls[c].mail] = 0
        BY <1>1, <2>1, <3>2, GotoOther, ZenonT(60) DEF Dedupe, IInv, CallSound, Stored
      <3>3. QED
        BY <3>1, <3>2
    <2>3. \A d \in Calls : d # c => calls'[d] = calls[d]
      BY <1>1, GotoOther DEF Dedupe, IInv
    <2>4. QED
      BY <1>1, <2>2, <2>3, SoundWithoutStore DEF Dedupe
  <1>2. ASSUME NEW c \in Calls, FindParent(c)
        PROVE  Sound' /\ Kept
    <2>1. PICK mail \in Mails : mail = calls[c].mail
      BY <1>2 DEF FindParent, IInv, TypeOK
    <2> DEFINE candidates == ParentCandidates(mail)
    <2>2. candidates \in Seq(Mails)
      BY <2>1, CandidatesType
    <2>3. calls[c].known \subseteq Stored
      BY DEF IInv, Sound, CallSound
    <2>4. UNCHANGED <<ticketOf, known>>
      BY <1>2 DEF FindParent
    <2>5. CASE FirstStored(candidates) = {} /\ Goto(c, "create")
      <3>1. \A i \in DOMAIN candidates : ticketOf[candidates[i]] = 0
        BY <2>2, <2>5, NoneStored DEF IInv
      <3>2. \A i \in DOMAIN candidates : candidates[i] \notin calls[c].known
        BY <2>3, <3>1 DEF Stored
      <3>3. /\ calls'[c].step = "create"
            /\ calls'[c].mail = mail
            /\ calls'[c].known = calls[c].known
            /\ \A d \in Calls : d # c => calls'[d] = calls[d]
        BY <2>1, <2>5, GotoOther DEF IInv
      <3>4. CallSound(c)'
        BY <2>3, <2>4, <3>2, <3>3 DEF CallSound, Stored
      <3>5. QED
        BY <2>4, <3>3, <3>4, SoundWithoutStore
    <2>6. ASSUME NEW i \in FirstStored(candidates),
                 calls' = [calls EXCEPT ![c].step = "append",
                                        ![c].parent = ticketOf[candidates[i]]]
          PROVE  Sound' /\ Kept
      <3>1. /\ calls'[c].step = "append"
            /\ calls'[c].mail = mail
            /\ calls'[c].known = calls[c].known
            /\ calls'[c].parent = ticketOf[candidates[i]]
            /\ \A d \in Calls : d # c => calls'[d] = calls[d]
        BY <2>1, <2>6 DEF IInv, TypeOK, Call
      <3>2. /\ i \in DOMAIN candidates
            /\ ticketOf[candidates[i]] # 0
            /\ \A k \in 1..(i - 1) : ticketOf[candidates[k]] = 0
        BY DEF FirstStored
      <3>3. \A k \in 1..(i - 1) : candidates[k] \notin calls[c].known
        BY <2>3, <3>2 DEF Stored
      <3>4. CallSound(c)'
        BY <2>3, <2>4, <3>1, <3>2, <3>3 DEF CallSound, Stored
      <3>5. QED
        BY <2>4, <3>1, <3>4, SoundWithoutStore
    <2>7. QED
      BY <1>2, <2>1, <2>5, <2>6 DEF FindParent
  <1>3. ASSUME NEW c \in Calls, AppendMessage(c)
        PROVE  Sound' /\ Kept
    <2>1. CASE Refused(c)
      BY <1>3, <2>1, HangupSound, SoundWithoutStore DEF Refused, IInv
    <2>2. CASE ticketOf[calls[c].mail] = 0 /\ Store(c, calls[c].parent)
      <3>1. calls[c].step = "append"
        BY <1>3 DEF AppendMessage
      <3>2. PICK j \in DOMAIN ParentCandidates(calls[c].mail) :
               /\ ticketOf[ParentCandidates(calls[c].mail)[j]] = calls[c].parent
               /\ \A k \in 1..(j - 1) :
                     ParentCandidates(calls[c].mail)[k] \notin calls[c].known
        BY <3>1 DEF IInv, Sound, CallSound
      <3>3. ASSUME NEW i \in DOMAIN ParentCandidates(calls[c].mail),
                   ParentCandidates(calls[c].mail)[i] \in calls[c].known
            PROVE  j \in 1..i
        <4>1. ParentCandidates(calls[c].mail) \in Seq(Mails)
          BY <3>1, CandidatesType DEF IInv, TypeOK
        <4>2. i \in Nat \ {0} /\ j \in Nat \ {0}
          BY <4>1
        <4>3. i \notin 1..(j - 1)
          BY <3>2, <3>3
        <4>4. QED
          BY <4>2, <4>3
      <3>4. QED
        BY <2>2, <3>1, <3>2, <3>3, ParentIsTicket, SoundStore
    <2>3. QED
      BY <1>3, <2>1, <2>2 DEF AppendMessage
  <1>4. ASSUME NEW c \in Calls, Create(c)
        PROVE  Sound' /\ Kept
    <2>1. CASE Refused(c)
      BY <1>4, <2>1, HangupSound, SoundWithoutStore DEF Refused, IInv
    <2>2. CASE ticketOf[calls[c].mail] = 0 /\ Store(c, tickets + 1)
      <3>1. calls[c].step = "create" /\ tickets + 1 \in Nat \ {0}
        BY <1>4 DEF Create, IInv, TypeOK
      <3>2. \A i \in DOMAIN ParentCandidates(calls[c].mail) :
               ParentCandidates(calls[c].mail)[i] \notin calls[c].known
        BY <3>1 DEF IInv, Sound, CallSound
      <3>3. QED
        BY <2>2, <3>1, <3>2, SoundStore
    <2>3. QED
      BY <1>4, <2>1, <2>2 DEF Create
  <1>5. ASSUME NEW c \in Calls, Answer(c) \/ Crash(c)
        PROVE  Sound' /\ Kept
    BY <1>5, HangupSound, SoundWithoutStore DEF Answer, Crash, IInv
  <1>6. ASSUME NEW c \in Calls, NEW m \in Mails, Post(c, m)
        PROVE  Sound' /\ Kept
    <2>1. /\ calls'[c].step = "dedupe" /\ calls'[c].known = Stored
          /\ \A d \in Calls : d # c => calls'[d] = calls[d]
      BY <1>6 DEF Post, IInv, TypeOK
    <2>2. CallSound(c)'
      BY <1>6, <2>1 DEF Post, CallSound, Stored
    <2>3. QED
      BY <1>6, <2>1, <2>2, SoundWithoutStore DEF Post
  <1>7. ASSUME NEW m \in Mails, DeskReplies(m)
        PROVE  Sound' /\ Kept
    <2> DEFINE candidates == ParentCandidates(m)
    <2>1. InReplyTo[m] \in Mails /\ InReplyTo[m] # m
      BY <1>7, IngestionAssumption DEF DeskReplies
    <2>2. /\ ticketOf'[m] = ticketOf[InReplyTo[m]]
          /\ \A n \in Mails : n # m => /\ ticketOf'[n] = ticketOf[n]
                                       /\ known'[n] = known[n]
      BY <1>7 DEF DeskReplies, IInv, TypeOK
    <2>3. Kept
      BY <1>7, <2>2 DEF Kept, DeskReplies
    <2>4. \A d \in Calls : CallSound(d)'
      BY <1>7, <2>3, CallSoundKept DEF DeskReplies, IInv, Sound
    <2>5. candidates \in Seq(Mails) /\ candidates[1] = InReplyTo[m]
      <3>1. candidates = <<InReplyTo[m]>> \o Reverse(References[m])
        BY <1>7 DEF DeskReplies, ParentCandidates
      <3>2. Reverse(References[m]) \in Seq(Mails)
        BY IngestionAssumption, ReverseType
      <3>3. QED
        BY <2>1, <3>1, <3>2, CandidatesType
    <2>6. MailSound(m)'
      <3>1. ticketOf'[candidates[1]] = ticketOf'[m]
        BY <2>1, <2>2, <2>5
      <3>2. QED
        BY <2>5, <3>1 DEF MailSound
    <2>7. \A n \in Stored' : MailSound(n)'
      BY <2>2, <2>3, <2>6, MailSoundKept DEF Stored, IInv, Sound
    <2>8. QED
      BY <2>3, <2>4, <2>7 DEF Sound
  <1>8. CASE UNCHANGED vars
    <2>1. Kept /\ Stored' = Stored
      BY <1>8 DEF Kept, vars, Stored
    <2>2. QED
      BY <1>8, <2>1, CallSoundKept, MailSoundKept DEF vars, IInv, Sound
  <1>9. QED
    BY <1>1, <1>2, <1>3, <1>4, <1>5, <1>6, <1>7, <1>8 DEF Next, CallStep

LEMMA SoundInit == Init => Sound
  BY IngestionAssumption DEF Init, Sound, CallSound, NoCall, Stored

(* Theorem: the invariant is inductive.                                    *)
THEOREM Inductive == Spec => []IInv
  <1>1. Init => IInv
    BY TypeInit, SoundInit DEF IInv
  <1>2. IInv /\ [Next]_vars => IInv'
    BY TypeStep, SoundStep DEF IInv
  <1>3. QED
    BY <1>1, <1>2, PTL DEF Spec

(* Theorem: the tables hold values of their types, for any emails.         *)
THEOREM TypeCorrect == Spec => []TypeOK
  <1>1. IInv => TypeOK
    BY DEF IInv
  <1>2. QED
    BY <1>1, Inductive, PTL

(* Theorem: an email lands on the ticket of the best relative there was    *)
(* when its delivery began, for any headers and any number of deliveries.  *)
THEOREM BestRelativeJoined == Spec => []JoinsBestRelative
  <1>1. IInv => JoinsBestRelative
    BY DEF IInv, Sound, MailSound, JoinsBestRelative
  <1>2. QED
    BY <1>1, Inductive, PTL

-----------------------------------------------------------------------------
(* The correspondence.                                                     *)

LEMMA LettersInit == Init => Letters!Init
  BY DEF Init, Letters!Init

LEMMA LettersStep ==
  ASSUME IInv, [Next]_vars
  PROVE  [Letters!Next]_(Letters!absVars)
  <1>1. ASSUME NEW c \in Calls, AppendMessage(c)
        PROVE  [Letters!Next]_(Letters!absVars)
    <2>1. PICK m \in Mails : m = calls[c].mail
      BY <1>1 DEF AppendMessage, IInv, TypeOK
    <2>2. CASE Refused(c)
      BY <1>1, <2>2 DEF AppendMessage, Refused, Letters!absVars
    <2>3. CASE ticketOf[m] = 0 /\ Store(c, calls[c].parent) /\ UNCHANGED tickets
      <3>1. PICK i \in DOMAIN ParentCandidates(m) :
               /\ ticketOf[ParentCandidates(m)[i]] # 0
               /\ ticketOf[ParentCandidates(m)[i]] = calls[c].parent
        BY <1>1, <2>1 DEF AppendMessage, IInv, Sound, CallSound
      <3>2. ParentCandidates(m)[i] \in Names(m)
        BY DEF Names, ToSet
      <3>3. Letters!Join(m)
        BY <1>1, <2>1, <2>3, <3>1, <3>2 DEF AppendMessage, Store, Letters!Join
      <3>4. QED
        BY <3>3 DEF Letters!Next
    <2>4. QED
      BY <1>1, <2>1, <2>2, <2>3 DEF AppendMessage
  <1>2. ASSUME NEW c \in Calls, Create(c)
        PROVE  [Letters!Next]_(Letters!absVars)
    <2>1. PICK m \in Mails : m = calls[c].mail
      BY <1>2 DEF Create, IInv, TypeOK
    <2>2. CASE Refused(c)
      BY <1>2, <2>2 DEF Create, Refused, Letters!absVars
    <2>3. CASE ticketOf[m] = 0 /\ Store(c, tickets + 1) /\ tickets' = tickets + 1
      <3>1. Letters!Open(m)
        BY <1>2, <2>1, <2>3 DEF Create, Store, Letters!Open
      <3>2. QED
        BY <3>1 DEF Letters!Next
    <2>4. QED
      BY <1>2, <2>1, <2>2, <2>3 DEF Create
  <1>3. ASSUME NEW c \in Calls, Answer(c)
        PROVE  [Letters!Next]_(Letters!absVars)
    <2>1. PICK m \in Mails : m = calls[c].mail
      BY <1>3 DEF Answer, IInv, TypeOK
    <2>2. ticketOf[m] # 0
      BY <1>3, <2>1 DEF Answer, IInv, Sound, CallSound
    <2>3. Letters!Acknowledge(m)
      BY <1>3, <2>1, <2>2 DEF Answer, Letters!Acknowledge
    <2>4. QED
      BY <2>3 DEF Letters!Next
  <1>4. ASSUME NEW m \in Mails, DeskReplies(m)
        PROVE  [Letters!Next]_(Letters!absVars)
    <2>1. InReplyTo[m] \in Names(m)
      <3>1. ParentCandidates(m) = <<InReplyTo[m]>> \o Reverse(References[m])
        BY <1>4 DEF DeskReplies, ParentCandidates
      <3>2. ParentCandidates(m) \in Seq(Mails)
        BY CandidatesType
      <3>3. Reverse(References[m]) \in Seq(Mails)
        BY IngestionAssumption, ReverseType
      <3>4. ParentCandidates(m)[1] = InReplyTo[m] /\ 1 \in DOMAIN ParentCandidates(m)
        BY <1>4, <3>1, <3>2, <3>3, IngestionAssumption DEF DeskReplies
      <3>5. QED
        BY <3>4 DEF Names, ToSet
    <2>2. Letters!Join(m)
      BY <1>4, <2>1 DEF DeskReplies, Letters!Join
    <2>3. QED
      BY <2>2 DEF Letters!Next
  <1>5. CASE UNCHANGED <<ticketOf, tickets, received>>
    BY <1>5 DEF Letters!absVars
  <1>6. QED
    BY <1>1, <1>2, <1>3, <1>4, <1>5
       DEF Next, CallStep, Dedupe, FindParent, Crash, Post, vars

(* Theorem: receiving mail implements the correspondence: one message and  *)
(* one ticket for an email, for good, and no success before it is stored.  *)
THEOREM CorrespondenceKept == Spec => KeepsCorrespondence
  <1>1. QED
    BY LettersInit, LettersStep, Inductive, PTL
       DEF Spec, KeepsCorrespondence, Letters!Spec
=============================================================================
