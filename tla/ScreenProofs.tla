---------------------------- MODULE ScreenProofs ----------------------------
(***************************************************************************)
(* Proofs about what the screens of the desk show: the reply box and the   *)
(* cached ticket behind it (Composer), for any number of texts, calls,     *)
(* failures, other people's writes and visits to the page; and the push    *)
(* channel (LiveEvents), for any number of tabs, processes, routes in      *)
(* flight and commits.                                                     *)
(***************************************************************************)
EXTENDS Composer, LiveEvents, FiniteSetTheorems, SequenceTheorems, TLAPS

-----------------------------------------------------------------------------
(* The inductive invariant, by parts.                                      *)

Out(c) == c.kind = "send" /\ c.at = "out"
Coming(c) == c.kind = "polish" /\ c.at = "done"
OwnDone == \E c \in calls : c.kind = "send" /\ c.at = "done" /\ c.mount = composer.mount

(* Calls belong to this visit to the page or to an earlier one, and a      *)
(* visit that has not begun has none.                                      *)
LocksInv ==
    /\ OneCallEach
    /\ \A c \in calls : c.mount <= composer.mount
    /\ ~composer.mounted => \A c \in calls : c.mount # composer.mount

(* Texts are older than what was made from them, and while the composer is *)
(* locked the box holds what its call was given.                           *)
BoxInv ==
    /\ composer.text <= Len(origin)
    /\ composer.prePolish # 0 => composer.prePolish < composer.text
    /\ composer.polishedDraft <= composer.text
    /\ composer.polishedDraft # 0 => composer.prePolish = origin[composer.polishedDraft]
    /\ \A i \in DOMAIN origin : origin[i] < i

RowsInv ==
    \A i \in DOMAIN thread :
       thread[i].text <= Len(origin) /\ thread[i].polished <= thread[i].text

CallInv(c) ==
    /\ c.text <= Len(origin) /\ c.polished <= c.text
    /\ c.kind \in {"send", "polish"} => c.text # 0
    /\ c.kind \in {"send", "polish"} /\ c.mount = composer.mount =>
          c.text = composer.text
    /\ c.kind = "send" /\ c.mount = composer.mount =>
          c.polished = composer.polishedDraft
    /\ Coming(c) => c.answer \in DOMAIN origin /\ origin[c.answer] = c.text
    /\ c.kind = "send" /\ c.at = "done" =>
          c.answer \in DOMAIN thread /\ thread[c.answer].text = c.text
    /\ c.kind \in {"resolve", "pick"} => c.status \in Status

CallsInv == \A c \in calls : CallInv(c)

(* Until a draft over the cap was refused, an intent has its press.        *)
IntentInv ==
    spent.refused = 0 =>
       /\ \A c \in calls : (c.kind = "send" /\ c.intent) \/ c.kind = "resolve" => c.asked
       /\ composer.resolveOnSend =>
             \E c \in calls : c.kind = "send" /\ c.mount = composer.mount /\ c.asked

(* What an unmarked screen, and a read that came back, agree with.         *)
PageInv ==
    /\ ~composer.mounted => read.at = "none"
    /\ read.at # "none" => screen.marked
    /\ read.at = "read" /\ events = 0 => read.got = Shown
    /\ ~screen.marked /\ events = 0 =>
          [messages |-> screen.messages, status |-> screen.status] = Shown
    /\ IsInjective(screen.messages)
    /\ IsInjective(read.got.messages)

(* Nothing that may still be sent is held twice: not by two requests, not  *)
(* by a request of an earlier visit and the box, and not by a polish whose *)
(* answer has not been heard and anything else.                            *)
HoldersApart ==
    /\ \A c, d \in calls :
          Out(c) /\ Out(d) /\ c # d =>
             /\ c.text # d.text
             /\ c.polished # 0 => c.polished # d.polished
    /\ \A c \in calls :
          Out(c) /\ c.mount # composer.mount =>
             /\ c.text # composer.text /\ c.text # composer.prePolish
             /\ c.polished # 0 => c.polished # composer.polishedDraft
    /\ \A c, d \in calls : Coming(c) /\ Coming(d) /\ c # d => c.answer # d.answer
    /\ \A c \in calls : Coming(c) =>
          /\ c.answer # composer.text /\ c.answer # composer.prePolish
          /\ c.answer # composer.polishedDraft
          /\ \A d \in calls : Out(d) => d.text # c.answer /\ d.polished # c.answer
          /\ \A i \in DOMAIN thread :
                thread[i].text # c.answer /\ thread[i].polished # c.answer

(* A text that may still be sent has one copy less to its account.         *)
Copies(n) == {i \in DOMAIN thread : thread[i].text = n}

MayBeSent(n) ==
    \/ \E c \in calls : Out(c) /\ c.text = n
    \/ (n = composer.text \/ n = composer.prePolish) /\ ~OwnDone

CopiesInv ==
    \A n \in 1..MaxTexts :
       /\ Cardinality(Copies(n)) <= 1 + spent.failures
       /\ MayBeSent(n) => Cardinality(Copies(n)) <= spent.failures

(* Without a failure, a polished text that may still be sent is not on the *)
(* thread.                                                                 *)
DraftsInv ==
    spent.failures = 0 =>
       /\ \A i, j \in DOMAIN thread :
             i # j /\ thread[i].polished # 0 => thread[i].polished # thread[j].polished
       /\ \A i \in DOMAIN thread :
             thread[i].polished # 0 =>
                /\ \A c \in calls : Out(c) => thread[i].polished # c.polished
                /\ ~OwnDone => thread[i].polished # composer.polishedDraft

TextsInv ==
    /\ LocksInv /\ BoxInv /\ RowsInv /\ CallsInv /\ IntentInv
    /\ HoldersApart /\ CopiesInv /\ DraftsInv

ComposerInductive == TypeOK /\ TextsInv /\ PageInv

-----------------------------------------------------------------------------
(* What the state is made of.                                              *)

LEMMA BoxFields ==
  ASSUME TypeOK
  PROVE  /\ composer \in Box
         /\ composer.mounted \in BOOLEAN /\ composer.mount \in Nat
         /\ composer.text \in Nat /\ composer.prePolish \in Nat
         /\ composer.polishedDraft \in Nat /\ composer.resolveOnSend \in BOOLEAN
         /\ composer.text \in Text /\ composer.prePolish \in Text
         /\ composer.polishedDraft \in Text
  BY ComposerAssumption DEF TypeOK, Box, Text

LEMMA BoxWrite ==
  ASSUME NEW b \in Box, NEW t \in Text, NEW p \in Text, NEW d \in Text
  PROVE  [b EXCEPT !.text = t, !.long = FALSE, !.prePolish = p, !.polishedDraft = d] \in Box
  BY DEF Box

LEMMA Origins ==
  ASSUME TypeOK
  PROVE  /\ Len(origin) \in Nat /\ DOMAIN origin = 1..Len(origin)
         /\ \A i \in DOMAIN origin : origin[i] \in Nat /\ origin[i] \in Text
  <1>1. origin \in Seq(Text)
    BY DEF TypeOK
  <1>2. Len(origin) \in Nat /\ DOMAIN origin = 1..Len(origin)
        /\ \A i \in DOMAIN origin : origin[i] \in Text
    BY <1>1, LenProperties, ElementOfSeq
  <1> QED BY <1>2, ComposerAssumption DEF Text

LEMMA Rows ==
  ASSUME TypeOK
  PROVE  /\ Len(thread) \in Nat /\ DOMAIN thread = 1..Len(thread)
         /\ \A i \in DOMAIN thread :
              thread[i] \in Message /\ thread[i].text \in Nat /\ thread[i].polished \in Nat
  <1>1. thread \in Seq(Message)
    BY DEF TypeOK
  <1>2. Len(thread) \in Nat /\ DOMAIN thread = 1..Len(thread)
        /\ \A i \in DOMAIN thread : thread[i] \in Message
    BY <1>1, LenProperties, ElementOfSeq
  <1> QED BY <1>2, ComposerAssumption DEF Text, Message

LEMMA CallFields ==
  ASSUME NEW c \in Call
  PROVE  /\ c.kind \in {"polish", "send", "resolve", "pick"} /\ c.mount \in Nat
         /\ c.text \in Nat /\ c.polished \in Nat /\ c.text \in Text /\ c.polished \in Text
         /\ c.status \in Status \cup {"none"} /\ c.asked \in BOOLEAN /\ c.intent \in BOOLEAN
         /\ c.at \in {"out", "done", "failed"} /\ c.answer \in Nat
  BY ComposerAssumption DEF Call, Text

LEMMA AppendFacts ==
  ASSUME NEW S, NEW s \in Seq(S), NEW x \in S
  PROVE  /\ Append(s, x) \in Seq(S) /\ Len(Append(s, x)) = Len(s) + 1
         /\ Len(s) \in Nat
         /\ DOMAIN s = 1..Len(s) /\ DOMAIN Append(s, x) = 1..(Len(s) + 1)
         /\ \A i \in DOMAIN s : Append(s, x)[i] = s[i]
         /\ Append(s, x)[Len(s) + 1] = x
  BY AppendProperties, LenProperties

(* A request that moves on keeps what it was sent with.                    *)
Same(c, d) ==
    /\ d.kind = c.kind /\ d.mount = c.mount /\ d.text = c.text
    /\ d.polished = c.polished /\ d.status = c.status
    /\ d.asked = c.asked /\ d.intent = c.intent

LEMMA Moving ==
  ASSUME TypeOK, NEW c \in calls, NEW at \in {"done", "failed"}, NEW answer \in Nat
  PROVE  \E d \in Call : /\ d = [c EXCEPT !.at = at, !.answer = answer]
                         /\ Same(c, d) /\ d.at = at /\ d.answer = answer
  <1>1. c \in Call
    BY DEF TypeOK
  <1>2. PICK d : d = [c EXCEPT !.at = at, !.answer = answer]
    OBVIOUS
  <1>3. d \in Call
    BY <1>1, <1>2 DEF Call
  <1>4. d.at = at /\ d.answer = answer
    BY <1>1, <1>2 DEF Call
  <1>5. Same(c, d)
    BY <1>1, <1>2 DEF Same, Call
  <1> QED BY <1>2, <1>3, <1>4, <1>5

(* A fresh request, by kind.                                               *)
LEMMA NewPolish ==
  ASSUME TypeOK
  PROVE  \E n \in Call :
           /\ n = [NewCall("polish") EXCEPT !.text = composer.text]
           /\ n.kind = "polish" /\ n.mount = composer.mount /\ n.text = composer.text
           /\ n.polished = 0 /\ n.status = "none" /\ n.asked = FALSE
           /\ n.intent = FALSE /\ n.at = "out" /\ n.answer = 0
  <1>1. PICK n : n = [NewCall("polish") EXCEPT !.text = composer.text]
    OBVIOUS
  <1>2. n = [kind |-> "polish", mount |-> composer.mount,
              text |-> composer.text, polished |-> 0,
              status |-> "none", asked |-> FALSE, intent |-> FALSE, at |-> "out", answer |-> 0]
    BY <1>1 DEF NewCall
  <1>3. n \in Call
    BY <1>2, BoxFields, ComposerAssumption DEF Call, Text
  <1> QED BY <1>1, <1>2, <1>3

LEMMA NewSend ==
  ASSUME TypeOK,
         NEW asked \in BOOLEAN, NEW intent \in BOOLEAN
  PROVE  \E n \in Call :
           /\ n = [NewCall("send") EXCEPT
                       !.text = composer.text,
                       !.polished = composer.polishedDraft,
                       !.intent = intent, !.asked = asked]
           /\ n.kind = "send" /\ n.mount = composer.mount /\ n.text = composer.text
           /\ n.polished = composer.polishedDraft /\ n.status = "none" /\ n.asked = asked
           /\ n.intent = intent /\ n.at = "out" /\ n.answer = 0
  <1>1. PICK n : n = [NewCall("send") EXCEPT
                       !.text = composer.text,
                       !.polished = composer.polishedDraft,
                       !.intent = intent, !.asked = asked]
    OBVIOUS
  <1>2. n = [kind |-> "send", mount |-> composer.mount, text |-> composer.text,
              polished |-> composer.polishedDraft, status |-> "none",
              asked |-> asked, intent |-> intent, at |-> "out", answer |-> 0]
    BY <1>1 DEF NewCall
  <1>3. n \in Call
    BY <1>2, BoxFields, ComposerAssumption DEF Call, Text
  <1>4. n.asked = asked /\ n.intent = intent
    BY <1>2, Zenon
  <1>5. /\ n.kind = "send" /\ n.mount = composer.mount /\ n.text = composer.text
        /\ n.polished = composer.polishedDraft /\ n.status = "none"
        /\ n.at = "out" /\ n.answer = 0
    BY <1>2
  <1> QED BY <1>1, <1>3, <1>4, <1>5, Zenon

LEMMA NewPick ==
  ASSUME TypeOK, NEW s \in Status
  PROVE  \E n \in Call :
           /\ n = [NewCall("pick") EXCEPT !.status = s]
           /\ n.kind = "pick" /\ n.mount = composer.mount /\ n.text = 0
           /\ n.polished = 0 /\ n.status = s /\ n.asked = FALSE
           /\ n.intent = FALSE /\ n.at = "out" /\ n.answer = 0
  <1>1. PICK n : n = [NewCall("pick") EXCEPT !.status = s]
    OBVIOUS
  <1>2. n = [kind |-> "pick", mount |-> composer.mount, text |-> 0, polished |-> 0,
              status |-> s, asked |-> FALSE, intent |-> FALSE, at |-> "out", answer |-> 0]
    BY <1>1 DEF NewCall
  <1>3. n \in Call
    BY <1>2, BoxFields, ComposerAssumption DEF Call, Text
  <1> QED BY <1>1, <1>2, <1>3

LEMMA NewResolve ==
  ASSUME TypeOK, NEW mount \in Nat, NEW asked \in BOOLEAN
  PROVE  \E n \in Call :
           /\ n = [NewCall("resolve") EXCEPT !.mount = mount, !.status = "Resolved",
                                              !.asked = asked]
           /\ n.kind = "resolve" /\ n.mount = mount /\ n.text = 0
           /\ n.polished = 0 /\ n.status = "Resolved" /\ n.asked = asked
           /\ n.intent = FALSE /\ n.at = "out" /\ n.answer = 0
  <1>1. PICK n : n = [NewCall("resolve") EXCEPT !.mount = mount, !.status = "Resolved",
                                              !.asked = asked]
    OBVIOUS
  <1>2. n = [kind |-> "resolve", mount |-> mount, text |-> 0, polished |-> 0,
              status |-> "Resolved",
              asked |-> asked, intent |-> FALSE, at |-> "out", answer |-> 0]
    BY <1>1 DEF NewCall
  <1>3. n \in Call
    BY <1>2, BoxFields, ComposerAssumption DEF Call, Text, Status
  <1>4. n.asked = asked /\ n.intent = FALSE
    BY <1>2, Zenon
  <1>5. /\ n.kind = "resolve" /\ n.mount = mount /\ n.text = 0
        /\ n.polished = 0 /\ n.status = "Resolved" /\ n.at = "out" /\ n.answer = 0
    BY <1>2
  <1> QED BY <1>1, <1>3, <1>4, <1>5, Zenon

(* A mutation leaves the composer with a copy of a set with one more row.  *)
LEMMA CopiesFinite ==
  ASSUME TypeOK, NEW n
  PROVE  IsFiniteSet(Copies(n)) /\ Cardinality(Copies(n)) \in Nat
  <1>1. IsFiniteSet(1..Len(thread))
    BY Rows, FS_Interval
  <1>2. Copies(n) \subseteq 1..Len(thread)
    BY Rows DEF Copies
  <1>3. IsFiniteSet(Copies(n))
    BY <1>1, <1>2, FS_Subset
  <1> QED BY <1>3, FS_CardinalityType

-----------------------------------------------------------------------------
(* Steps that leave the texts alone.                                       *)

LEMMA PageOnly ==
  ASSUME TextsInv, UNCHANGED <<thread, composer, calls, origin, spent>>
  PROVE  TextsInv'
  BY DEF TextsInv, LocksInv, OneCallEach, BoxInv, RowsInv, CallsInv, CallInv, IntentInv,
         HoldersApart, CopiesInv, Copies, MayBeSent, DraftsInv, OwnDone, Out, Coming

(* An answer the box is not told of: the request goes, and that is all.    *)
LEMMA Dropped ==
  ASSUME TextsInv, NEW c \in calls, calls' = calls \ {c},
         UNCHANGED <<thread, composer, origin, spent>>,
         c.kind # "send" \/ c.mount # composer.mount
  PROVE  TextsInv'
  <1>1. LocksInv'
    BY DEF TextsInv, LocksInv, OneCallEach
  <1>2. BoxInv' /\ RowsInv'
    BY DEF TextsInv, BoxInv, RowsInv
  <1>3. CallsInv'
    BY DEF TextsInv, CallsInv, CallInv, Coming
  <1>4. IntentInv'
    BY DEF TextsInv, IntentInv
  <1>5. HoldersApart'
    BY DEF TextsInv, HoldersApart, Out, Coming
  <1>6. OwnDone' <=> OwnDone
    BY DEF OwnDone
  <1>7. CopiesInv'
    BY <1>6 DEF TextsInv, CopiesInv, Copies, MayBeSent, Out
  <1>8. DraftsInv'
    BY <1>6 DEF TextsInv, DraftsInv, Out
  <1> QED BY <1>1, <1>2, <1>3, <1>4, <1>5, <1>7, <1>8 DEF TextsInv

LEMMA PageKept ==
  ASSUME PageInv, UNCHANGED <<serverVars, pageVars>>,
         composer'.mounted = composer.mounted
  PROVE  PageInv'
  BY DEF PageInv, serverVars, pageVars, Shown, IsInjective

LEMMA OriginGrows ==
  ASSUME TypeOK, NEW x \in Text, Len(origin) < MaxTexts, origin' = Append(origin, x)
  PROVE  /\ origin' \in Seq(Text) /\ Len(origin') <= MaxTexts
         /\ Len(origin) \in Nat /\ Len(origin') = Len(origin) + 1
         /\ Len(origin') \in Nat /\ Len(origin') \in Text
         /\ DOMAIN origin = 1..Len(origin) /\ DOMAIN origin' = 1..(Len(origin) + 1)
         /\ \A i \in DOMAIN origin : origin'[i] = origin[i]
         /\ origin'[Len(origin) + 1] = x
  <1>1. origin \in Seq(Text)
    BY DEF TypeOK
  <1> QED BY <1>1, AppendFacts, ComposerAssumption DEF Text

(* What a bound costs.                                                     *)

Budget == [calls : Nat, failures : Nat, refused : Nat, others : Nat, leaves : Nat]

LEMMA SpendCall ==
  ASSUME TypeOK, Spend("calls", MaxCalls)
  PROVE  /\ spent' \in Budget
         /\ spent'.calls = spent.calls + 1 /\ spent.calls \in Nat
         /\ spent'.failures = spent.failures /\ spent'.refused = spent.refused
         /\ spent'.others = spent.others /\ spent'.leaves = spent.leaves
  <1>1. spent' = [spent EXCEPT !.calls = @ + 1]
    BY DEF Spend
  <1>2. spent \in Budget
    BY DEF TypeOK, Budget
  <1>3. spent' \in Budget
    BY <1>1, <1>2 DEF Budget
  <1>4. spent'.calls = spent.calls + 1 /\ spent.calls \in Nat
    BY <1>1, <1>2 DEF Budget
  <1>5. /\ spent'.failures = spent.failures /\ spent'.refused = spent.refused
        /\ spent'.others = spent.others /\ spent'.leaves = spent.leaves
    BY <1>1, <1>2 DEF Budget
  <1> QED BY <1>3, <1>4, <1>5

LEMMA SpendFailure ==
  ASSUME TypeOK, Spend("failures", MaxFailures)
  PROVE  /\ spent' \in Budget
         /\ spent'.failures = spent.failures + 1 /\ spent.failures \in Nat
         /\ spent'.calls = spent.calls /\ spent'.refused = spent.refused
         /\ spent'.others = spent.others /\ spent'.leaves = spent.leaves
  <1>1. spent' = [spent EXCEPT !.failures = @ + 1]
    BY DEF Spend
  <1>2. spent \in Budget
    BY DEF TypeOK, Budget
  <1>3. spent' \in Budget
    BY <1>1, <1>2 DEF Budget
  <1>4. spent'.failures = spent.failures + 1 /\ spent.failures \in Nat
    BY <1>1, <1>2 DEF Budget
  <1>5. /\ spent'.calls = spent.calls /\ spent'.refused = spent.refused
        /\ spent'.others = spent.others /\ spent'.leaves = spent.leaves
    BY <1>1, <1>2 DEF Budget
  <1> QED BY <1>3, <1>4, <1>5

LEMMA SpendRefused ==
  ASSUME TypeOK, Spend("refused", MaxRefused)
  PROVE  /\ spent' \in Budget
         /\ spent'.refused = spent.refused + 1 /\ spent.refused \in Nat
         /\ spent'.calls = spent.calls /\ spent'.failures = spent.failures
         /\ spent'.others = spent.others /\ spent'.leaves = spent.leaves
  <1>1. spent' = [spent EXCEPT !.refused = @ + 1]
    BY DEF Spend
  <1>2. spent \in Budget
    BY DEF TypeOK, Budget
  <1>3. spent' \in Budget
    BY <1>1, <1>2 DEF Budget
  <1>4. spent'.refused = spent.refused + 1 /\ spent.refused \in Nat
    BY <1>1, <1>2 DEF Budget
  <1>5. /\ spent'.calls = spent.calls /\ spent'.failures = spent.failures
        /\ spent'.others = spent.others /\ spent'.leaves = spent.leaves
    BY <1>1, <1>2 DEF Budget
  <1> QED BY <1>3, <1>4, <1>5

LEMMA SpendOther ==
  ASSUME TypeOK, Spend("others", MaxOthers)
  PROVE  /\ spent' \in Budget
         /\ spent'.others = spent.others + 1 /\ spent.others \in Nat
         /\ spent'.calls = spent.calls /\ spent'.failures = spent.failures
         /\ spent'.refused = spent.refused /\ spent'.leaves = spent.leaves
  <1>1. spent' = [spent EXCEPT !.others = @ + 1]
    BY DEF Spend
  <1>2. spent \in Budget
    BY DEF TypeOK, Budget
  <1>3. spent' \in Budget
    BY <1>1, <1>2 DEF Budget
  <1>4. spent'.others = spent.others + 1 /\ spent.others \in Nat
    BY <1>1, <1>2 DEF Budget
  <1>5. /\ spent'.calls = spent.calls /\ spent'.failures = spent.failures
        /\ spent'.refused = spent.refused /\ spent'.leaves = spent.leaves
    BY <1>1, <1>2 DEF Budget
  <1> QED BY <1>3, <1>4, <1>5

LEMMA SpendLeave ==
  ASSUME TypeOK, Spend("leaves", MaxLeaves)
  PROVE  /\ spent' \in Budget
         /\ spent'.leaves = spent.leaves + 1 /\ spent.leaves \in Nat
         /\ spent'.calls = spent.calls /\ spent'.failures = spent.failures
         /\ spent'.refused = spent.refused /\ spent'.others = spent.others
  <1>1. spent' = [spent EXCEPT !.leaves = @ + 1]
    BY DEF Spend
  <1>2. spent \in Budget
    BY DEF TypeOK, Budget
  <1>3. spent' \in Budget
    BY <1>1, <1>2 DEF Budget
  <1>4. spent'.leaves = spent.leaves + 1 /\ spent.leaves \in Nat
    BY <1>1, <1>2 DEF Budget
  <1>5. /\ spent'.calls = spent.calls /\ spent'.failures = spent.failures
        /\ spent'.refused = spent.refused /\ spent'.others = spent.others
    BY <1>1, <1>2 DEF Budget
  <1> QED BY <1>3, <1>4, <1>5

-----------------------------------------------------------------------------
(* The agent at the box.                                                   *)

LEMMA TypesKeeps ==
  ASSUME ComposerInductive, Types
  PROVE  ComposerInductive'
  <1> USE DEF ComposerInductive, TextsInv
  <1>1. /\ Free /\ Len(origin) < MaxTexts /\ origin' = Append(origin, 0)
        /\ UNCHANGED <<thread, status, events, calls, screen, read, spent>>
    BY DEF Types, serverVars, pageVars
  <1>2. PICK long \in BOOLEAN :
          composer' = [composer EXCEPT !.text = Len(origin'), !.long = long]
    BY DEF Types
  <1>3. /\ Len(origin) \in Nat /\ Len(origin') = Len(origin) + 1
        /\ Len(origin') \in Text /\ Len(origin') <= MaxTexts /\ origin' \in Seq(Text)
        /\ DOMAIN origin = 1..Len(origin) /\ DOMAIN origin' = 1..(Len(origin) + 1)
        /\ \A i \in DOMAIN origin : origin'[i] = origin[i]
        /\ origin'[Len(origin) + 1] = 0
    BY <1>1, OriginGrows, ComposerAssumption DEF Text
  <1>4. /\ composer' \in Box /\ composer'.text = Len(origin) + 1
        /\ composer'.mount = composer.mount /\ composer'.mounted = composer.mounted
        /\ composer'.prePolish = composer.prePolish
        /\ composer'.polishedDraft = composer.polishedDraft
        /\ composer'.resolveOnSend = composer.resolveOnSend
    BY <1>2, <1>3, BoxFields DEF Box
  <1>5. TypeOK'
    BY <1>1, <1>3, <1>4 DEF TypeOK
  <1>6. \A c \in calls : c.mount = composer.mount => c.kind = "pick"
    BY <1>1 DEF Free, busy
  <1>7. LocksInv'
    BY <1>1, <1>4 DEF LocksInv, OneCallEach
  <1>8. BoxInv'
    <2>1. composer'.prePolish # 0 => composer'.prePolish < composer'.text
      BY <1>3, <1>4, BoxFields DEF BoxInv
    <2>2. composer'.polishedDraft <= composer'.text
      BY <1>3, <1>4, BoxFields DEF BoxInv
    <2>3. composer'.polishedDraft # 0 =>
            composer'.prePolish = origin'[composer'.polishedDraft]
      BY <1>3, <1>4, BoxFields DEF BoxInv
    <2>4. \A i \in DOMAIN origin' : origin'[i] < i
      BY <1>3 DEF BoxInv
    <2> QED BY <1>3, <1>4, <2>1, <2>2, <2>3, <2>4 DEF BoxInv
  <1>9. RowsInv'
    BY <1>1, <1>3, Rows DEF RowsInv
  <1>10. CallsInv'
    <2> SUFFICES ASSUME NEW c \in calls PROVE CallInv(c)'
      BY <1>1 DEF CallsInv
    <2>1. c \in Call /\ CallInv(c)
      BY DEF TypeOK, CallsInv
    <2> QED BY <2>1, <1>1, <1>3, <1>4, <1>6, CallFields DEF CallInv, Coming
  <1>11. IntentInv'
    BY <1>1, <1>4 DEF IntentInv
  <1>12. HoldersApart'
    <2>1. \A c \in calls : c.text \in Nat /\ c.text <= Len(origin) /\ c.answer \in Nat
                           /\ (Coming(c) => c.answer <= Len(origin))
      BY <1>3, CallFields DEF TypeOK, CallsInv, CallInv
    <2> QED BY <1>1, <1>3, <1>4, <2>1 DEF HoldersApart, Out, Coming
  <1>13. OwnDone' <=> OwnDone
    BY <1>1, <1>4 DEF OwnDone
  <1>14. CopiesInv'
    <2> SUFFICES ASSUME NEW n \in 1..MaxTexts
                 PROVE  /\ Cardinality(Copies(n)) <= 1 + spent.failures
                        /\ MayBeSent(n)' => Cardinality(Copies(n)) <= spent.failures
      BY <1>1 DEF CopiesInv, Copies
    <2>1. CASE n = Len(origin) + 1
      <3>1. Copies(n) = {}
        BY <2>1, <1>3, Rows DEF Copies, RowsInv
      <3>2. Cardinality(Copies(n)) = 0
        BY <3>1, FS_EmptySet
      <3> QED BY <3>2 DEF TypeOK
    <2>2. CASE n # Len(origin) + 1
      BY <2>2, <1>1, <1>4, <1>13 DEF CopiesInv, MayBeSent, Out
    <2> QED BY <2>1, <2>2
  <1>15. DraftsInv'
    BY <1>1, <1>4, <1>13 DEF DraftsInv, Out
  <1>16. PageInv'
    BY <1>1, <1>4, PageKept DEF serverVars, pageVars
  <1> QED BY <1>5, <1>7, <1>8, <1>9, <1>10, <1>11, <1>12, <1>14, <1>15, <1>16

(* A press that starts a request, whichever button it is: the control was  *)
(* free, and the request has what the box holds.                           *)
LEMMA Pressing ==
  ASSUME ComposerInductive,
         NEW n \in Call, n.at = "out", n.mount = composer.mount,
         calls' = calls \cup {n},
         \A c \in calls :
            c.mount = n.mount => (c.kind = "pick" /\ n.kind # "pick")
                                 \/ (c.kind # "pick" /\ n.kind = "pick"),
         n.kind = "send" => ~OwnDone,
         CallInv(n),
         composer.mounted, composer' \in Box,
         composer'.mounted = composer.mounted, composer'.mount = composer.mount,
         composer'.text = composer.text, composer'.prePolish = composer.prePolish,
         composer'.polishedDraft = composer.polishedDraft,
         UNCHANGED <<thread, status, events, screen, read, origin>>,
         spent' \in Budget,
         spent'.failures = spent.failures,
         IntentInv'
  PROVE  ComposerInductive'
  <1> USE DEF ComposerInductive, TextsInv
  <1>1. TypeOK'
    BY DEF TypeOK, Budget
  <1>2. LocksInv'
    <2>1. OneCallEach'
      BY DEF LocksInv, OneCallEach
    <2>2. \A c \in calls' : c.mount <= composer'.mount
      BY BoxFields DEF LocksInv
    <2> QED BY <2>1, <2>2 DEF LocksInv
  <1>3. BoxInv' /\ RowsInv'
    BY DEF BoxInv, RowsInv
  <1>4. CallsInv'
    BY DEF CallsInv, CallInv, Coming
  <1>5. ~Coming(n)
    BY DEF Coming
  <1>6. Out(n) => n.text = composer.text /\ n.polished = composer.polishedDraft
    BY DEF Out, CallInv
  <1>7. HoldersApart'
    <2>1. \A c \in calls : Out(n) /\ Out(c) => c.mount # composer.mount
      BY DEF Out
    <2>2. \A c, d \in calls' :
            Out(c) /\ Out(d) /\ c # d =>
               /\ c.text # d.text
               /\ c.polished # 0 => c.polished # d.polished
      BY <1>6, <2>1 DEF HoldersApart
    <2>3. \A c \in calls' :
            Out(c) /\ c.mount # composer'.mount =>
               /\ c.text # composer'.text /\ c.text # composer'.prePolish
               /\ c.polished # 0 => c.polished # composer'.polishedDraft
      BY DEF HoldersApart
    <2>4. \A c, d \in calls' : Coming(c) /\ Coming(d) /\ c # d => c.answer # d.answer
      BY <1>5 DEF HoldersApart
    <2>5. \A c \in calls' : Coming(c) =>
            /\ c.answer # composer'.text /\ c.answer # composer'.prePolish
            /\ c.answer # composer'.polishedDraft
            /\ \A d \in calls' : Out(d) => d.text # c.answer /\ d.polished # c.answer
            /\ \A i \in DOMAIN thread' :
                  thread'[i].text # c.answer /\ thread'[i].polished # c.answer
      BY <1>5, <1>6 DEF HoldersApart
    <2> QED BY <2>2, <2>3, <2>4, <2>5 DEF HoldersApart, Out, Coming
  <1>8. OwnDone' <=> OwnDone
    BY DEF OwnDone
  <1>9. \A m : MayBeSent(m)' => MayBeSent(m)
    BY <1>6, <1>8 DEF MayBeSent, Out
  <1>10. CopiesInv'
    BY <1>9 DEF CopiesInv, Copies
  <1>11. DraftsInv'
    BY <1>6, <1>8 DEF DraftsInv, Out
  <1>12. PageInv'
    BY PageKept DEF serverVars, pageVars
  <1> QED BY <1>1, <1>2, <1>3, <1>4, <1>7, <1>10, <1>11, <1>12

(* While the composer is free, none of its own requests is pending.        *)
LEMMA FreeBox ==
  ASSUME Free
  PROVE  /\ composer.mounted /\ ~OwnDone
         /\ \A c \in calls : c.mount = composer.mount => c.kind = "pick"
  BY DEF Free, busy, OwnDone

LEMMA runPolishKeeps ==
  ASSUME ComposerInductive, runPolish
  PROVE  ComposerInductive'
  <1> USE DEF ComposerInductive, TextsInv
  <1>1. PICK n \in Call :
          /\ n = [NewCall("polish") EXCEPT !.text = composer.text]
          /\ n.kind = "polish" /\ n.mount = composer.mount /\ n.text = composer.text
          /\ n.polished = 0 /\ n.at = "out"
    BY NewPolish
  <1>2. /\ Free /\ composer.text # 0 /\ Spend("calls", MaxCalls)
        /\ calls' = calls \cup {n}
        /\ UNCHANGED <<thread, status, events, composer, screen, read, origin>>
    BY <1>1 DEF runPolish, serverVars, pageVars
  <1>3. CallInv(n)
    BY <1>1, <1>2, BoxFields, Origins DEF CallInv, Coming, BoxInv
  <1>4. IntentInv'
    BY <1>1, <1>2, SpendCall DEF IntentInv
  <1>5. composer' \in Box
    BY <1>2, BoxFields
  <1> QED BY <1>1, <1>2, <1>3, <1>4, <1>5, FreeBox, SpendCall, Pressing, ZenonT(60)

LEMMA PickStatusKeeps ==
  ASSUME ComposerInductive, PickStatus
  PROVE  ComposerInductive'
  <1> USE DEF ComposerInductive, TextsInv
  <1>1. PICK s \in Status :
          calls' = calls \cup {[NewCall("pick") EXCEPT !.status = s]}
    BY DEF PickStatus
  <1>2. PICK n \in Call :
          /\ n = [NewCall("pick") EXCEPT !.status = s]
          /\ n.kind = "pick" /\ n.mount = composer.mount /\ n.text = 0
          /\ n.polished = 0 /\ n.at = "out" /\ n.status = s
    BY NewPick
  <1>3. /\ composer.mounted /\ Spend("calls", MaxCalls)
        /\ ~\E c \in calls : c.mount = composer.mount /\ c.kind = "pick"
        /\ calls' = calls \cup {n}
        /\ UNCHANGED <<thread, status, events, composer, screen, read, origin>>
    BY <1>1, <1>2 DEF PickStatus, serverVars, pageVars
  <1>4. CallInv(n)
    BY <1>1, <1>2, Origins DEF CallInv, Coming
  <1>5. IntentInv'
    BY <1>2, <1>3, SpendCall DEF IntentInv
  <1>6. composer' \in Box
    BY <1>3, BoxFields
  <1> QED BY <1>2, <1>3, <1>4, <1>5, <1>6, SpendCall, Pressing

(* A send takes the text in the box and the polish it is compared with.    *)
LEMMA Submitting ==
  ASSUME ComposerInductive, Free, composer.text # 0,
         NEW intent \in BOOLEAN, NEW asked \in BOOLEAN, submit(intent, asked)
  PROVE  \E n \in Call :
           /\ n.kind = "send" /\ n.mount = composer.mount /\ n.at = "out"
           /\ n.intent = intent /\ n.asked = asked
           /\ CallInv(n) /\ calls' = calls \cup {n}
  <1> USE DEF ComposerInductive, TextsInv
  <1>1. PICK n \in Call :
          /\ n = [NewCall("send") EXCEPT
                     !.text = composer.text,
                     !.polished = composer.polishedDraft,
                     !.intent = intent, !.asked = asked]
          /\ n.kind = "send" /\ n.mount = composer.mount /\ n.text = composer.text
          /\ n.polished = composer.polishedDraft /\ n.status = "none" /\ n.asked = asked
          /\ n.intent = intent /\ n.at = "out" /\ n.answer = 0
    BY NewSend, ZenonT(60)
  <1>2. calls' = calls \cup {n}
    BY <1>1 DEF submit
  <1>3. CallInv(n)
    BY <1>1, BoxFields, Origins DEF CallInv, Coming, BoxInv
  <1> QED BY <1>1, <1>2, <1>3, Zenon

LEMMA PressSendKeeps ==
  ASSUME ComposerInductive, PressSend
  PROVE  ComposerInductive'
  <1> USE DEF ComposerInductive, TextsInv
  <1>1. /\ Free /\ composer.text # 0 /\ Spend("calls", MaxCalls)
        /\ submit(composer.resolveOnSend, FALSE)
        /\ UNCHANGED <<thread, status, events, composer, screen, read, origin>>
    BY DEF PressSend, submit, serverVars, pageVars
  <1>2. PICK n \in Call :
          /\ n.kind = "send" /\ n.mount = composer.mount /\ n.at = "out"
          /\ n.intent = composer.resolveOnSend /\ n.asked = FALSE
          /\ CallInv(n) /\ calls' = calls \cup {n}
    BY <1>1, BoxFields, Submitting, Zenon
  <1>3. spent.refused = 0 => ~composer.resolveOnSend
    BY <1>1, FreeBox DEF IntentInv
  <1>4. IntentInv'
    BY <1>1, <1>2, <1>3, SpendCall DEF IntentInv
  <1>5. composer' \in Box
    BY <1>1, BoxFields
  <1> QED BY <1>1, <1>2, <1>4, <1>5, FreeBox, SpendCall, Pressing

LEMMA sendAndResolveKeeps ==
  ASSUME ComposerInductive, sendAndResolve
  PROVE  ComposerInductive'
  <1> USE DEF ComposerInductive, TextsInv
  <1>1. /\ Free /\ composer.text # 0
        /\ composer' = [composer EXCEPT !.resolveOnSend = TRUE]
        /\ UNCHANGED <<thread, status, events, screen, read, origin>>
    BY DEF sendAndResolve, serverVars, pageVars
  <1>2. /\ composer' \in Box
        /\ composer'.mounted = composer.mounted /\ composer'.mount = composer.mount
        /\ composer'.text = composer.text /\ composer'.prePolish = composer.prePolish
        /\ composer'.polishedDraft = composer.polishedDraft
    BY <1>1, BoxFields DEF Box
  <1>3. CASE composer.long
    <2>1. Spend("refused", MaxRefused) /\ calls' = calls
      BY <1>3 DEF sendAndResolve
    <2>2. IntentInv'
      BY <2>1, SpendRefused DEF IntentInv
    <2>3. TypeOK'
      BY <1>1, <1>2, <2>1, SpendRefused DEF TypeOK, Budget
    <2>4. LocksInv' /\ BoxInv' /\ RowsInv' /\ CallsInv'
      BY <1>1, <1>2, <2>1
         DEF LocksInv, OneCallEach, BoxInv, RowsInv, CallsInv, CallInv, Coming
    <2>5. HoldersApart'
      BY <1>1, <1>2, <2>1 DEF HoldersApart, Out, Coming
    <2>6. CopiesInv' /\ DraftsInv'
      BY <1>1, <1>2, <2>1, SpendRefused
         DEF CopiesInv, Copies, MayBeSent, DraftsInv, OwnDone, Out
    <2>7. PageInv'
      BY <1>1, <1>2, PageKept DEF serverVars, pageVars
    <2> QED BY <2>2, <2>3, <2>4, <2>5, <2>6, <2>7
  <1>4. CASE ~composer.long
    <2>1. submit(TRUE, TRUE) /\ Spend("calls", MaxCalls)
      BY <1>4 DEF sendAndResolve, submit
    <2>2. PICK n \in Call :
            /\ n.kind = "send" /\ n.mount = composer.mount /\ n.at = "out"
            /\ n.intent = TRUE /\ n.asked = TRUE
            /\ CallInv(n) /\ calls' = calls \cup {n}
      BY <1>1, <2>1, Submitting, Zenon
    <2>3. IntentInv'
      BY <1>2, <2>1, <2>2, SpendCall DEF IntentInv
    <2> QED BY <1>1, <1>2, <2>1, <2>2, <2>3, FreeBox, SpendCall, Pressing
  <1> QED BY <1>3, <1>4

LEMMA undoPolishKeeps ==
  ASSUME ComposerInductive, undoPolish
  PROVE  ComposerInductive'
  <1> USE DEF ComposerInductive, TextsInv
  <1>1. /\ Free /\ composer.prePolish # 0
        /\ composer' = [composer EXCEPT !.text = composer.prePolish, !.long = FALSE,
                                        !.prePolish = 0, !.polishedDraft = 0]
        /\ UNCHANGED <<thread, status, events, calls, screen, read, origin, spent>>
    BY DEF undoPolish, serverVars, pageVars
  <1>2. /\ composer' \in Box
        /\ composer'.mounted = composer.mounted /\ composer'.mount = composer.mount
        /\ composer'.text = composer.prePolish /\ composer'.prePolish = 0
        /\ composer'.polishedDraft = 0
        /\ composer'.resolveOnSend = composer.resolveOnSend
    <2>1. composer' \in Box
      <3>1. 0 \in Text
        BY ComposerAssumption DEF Text
      <3> QED BY <1>1, <3>1, BoxFields, BoxWrite
    <2>2. /\ composer'.mounted = composer.mounted /\ composer'.mount = composer.mount
          /\ composer'.resolveOnSend = composer.resolveOnSend
      BY <1>1, BoxFields DEF Box
    <2>3. /\ composer'.text = composer.prePolish /\ composer'.prePolish = 0
          /\ composer'.polishedDraft = 0
      BY <1>1, BoxFields DEF Box
    <2> QED BY <2>1, <2>2, <2>3
  <1>3. TypeOK'
    BY <1>1, <1>2 DEF TypeOK
  <1>4. LocksInv' /\ IntentInv' /\ RowsInv'
    BY <1>1, <1>2 DEF LocksInv, OneCallEach, IntentInv, RowsInv
  <1>5. BoxInv'
    BY <1>1, <1>2, BoxFields, Origins DEF BoxInv
  <1>6. CallsInv'
    BY <1>1, <1>2, FreeBox DEF CallsInv, CallInv, Coming
  <1>7. HoldersApart'
    <2>1. \A c \in calls :
            /\ Out(c) /\ c.mount # composer.mount => c.text # 0
            /\ Coming(c) => c.answer # 0
      BY <1>1, Origins DEF CallsInv, CallInv, Out, Coming
    <2> QED BY <1>1, <1>2, <2>1 DEF HoldersApart, Out, Coming
  <1>8. OwnDone' <=> OwnDone
    BY <1>1, <1>2 DEF OwnDone
  <1>9. CopiesInv' /\ DraftsInv'
    <2>1. \A m \in 1..MaxTexts : MayBeSent(m)' => MayBeSent(m)
      BY <1>1, <1>2, <1>8, ComposerAssumption DEF MayBeSent, Out
    <2>2. CopiesInv'
      BY <1>1, <2>1 DEF CopiesInv, Copies
    <2>3. DraftsInv'
      BY <1>1, <1>2, <1>8 DEF DraftsInv, Out
    <2> QED BY <2>2, <2>3
  <1>10. PageInv'
    BY <1>1, <1>2, PageKept DEF serverVars, pageVars
  <1> QED BY <1>3, <1>4, <1>5, <1>6, <1>7, <1>9, <1>10

-----------------------------------------------------------------------------
(* The server.                                                             *)

(* What is written is announced: until that is heard, nothing is claimed.  *)
LEMMA PageNoted ==
  ASSUME TypeOK, PageInv, events' = events + 1, UNCHANGED pageVars,
         composer'.mounted = composer.mounted
  PROVE  PageInv'
  <1>1. events' # 0
    BY DEF TypeOK
  <1>2. UNCHANGED <<screen, read>>
    BY DEF pageVars
  <1> QED BY <1>1, <1>2 DEF PageInv, IsInjective

LEMMA Moved ==
  ASSUME ComposerInductive, NEW c \in calls, NEW d \in Call, Same(c, d),
         calls' = (calls \ {c}) \cup {d}, UNCHANGED composer,
         spent'.refused = spent.refused
  PROVE  calls' \subseteq Call /\ LocksInv' /\ IntentInv'
  <1> USE DEF ComposerInductive, TextsInv
  <1>1. calls' \subseteq Call
    BY DEF TypeOK
  <1>2. LocksInv'
    BY DEF LocksInv, OneCallEach, Same
  <1>3. IntentInv'
    <2>1. d.kind = c.kind /\ d.mount = c.mount /\ (d.asked <=> c.asked)
          /\ (d.intent <=> c.intent)
      BY DEF Same
    <2>2. spent'.refused = 0 => \A e \in calls' :
            (e.kind = "send" /\ e.intent) \/ e.kind = "resolve" => e.asked
      BY <2>1 DEF IntentInv
    <2>3. spent'.refused = 0 => (composer'.resolveOnSend =>
             \E e \in calls' : e.kind = "send" /\ e.mount = composer'.mount /\ e.asked)
      BY <2>1 DEF IntentInv
    <2> QED BY <2>2, <2>3 DEF IntentInv
  <1> QED BY <1>1, <1>2, <1>3

LEMMA ThreadGrows ==
  ASSUME TypeOK, NEW row \in Message, thread' = Append(thread, row)
  PROVE  /\ thread' \in Seq(Message) /\ Len(thread) \in Nat
         /\ Len(thread') = Len(thread) + 1
         /\ DOMAIN thread = 1..Len(thread) /\ DOMAIN thread' = 1..(Len(thread) + 1)
         /\ \A i \in DOMAIN thread : thread'[i] = thread[i]
         /\ thread'[Len(thread) + 1] = row
  <1>1. thread \in Seq(Message)
    BY DEF TypeOK
  <1> QED BY <1>1, AppendFacts

LEMMA CopiesGrow ==
  ASSUME TypeOK, NEW row \in Message, thread' = Append(thread, row), NEW n
  PROVE  /\ row.text = n => Cardinality(Copies(n))' = Cardinality(Copies(n)) + 1
         /\ row.text # n => Copies(n)' = Copies(n)
  <1>1. /\ Len(thread) \in Nat
        /\ DOMAIN thread = 1..Len(thread) /\ DOMAIN thread' = 1..(Len(thread) + 1)
        /\ \A i \in DOMAIN thread : thread'[i] = thread[i]
        /\ thread'[Len(thread) + 1] = row
    BY ThreadGrows
  <1>2. CASE row.text = n
    <2>1. Copies(n)' = Copies(n) \cup {Len(thread) + 1}
      BY <1>1, <1>2 DEF Copies
    <2>2. (Len(thread) + 1) \notin Copies(n)
      BY <1>1 DEF Copies
    <2>3. IsFiniteSet(Copies(n))
      BY CopiesFinite
    <2>4. Cardinality(Copies(n) \cup {Len(thread) + 1}) = Cardinality(Copies(n)) + 1
      BY <2>2, <2>3, FS_AddElement
    <2> QED BY <1>2, <2>1, <2>4
  <1>3. CASE row.text # n
    BY <1>1, <1>3 DEF Copies
  <1> QED BY <1>2, <1>3

LEMMA TakeReplyKeeps ==
  ASSUME ComposerInductive, NEW c \in calls, TakeReply(c)
  PROVE  ComposerInductive'
  <1> USE DEF ComposerInductive, TextsInv
  <1>1. PICK row : row = [by |-> "agent", text |-> c.text, polished |-> c.polished]
    OBVIOUS
  <1>2. /\ c \in Call /\ c.kind = "send" /\ c.at = "out"
        /\ thread' = Append(thread, row) /\ events' = events + 1
        /\ calls' = (calls \ {c}) \cup
                       {[c EXCEPT !.at = "done", !.answer = Len(thread')]}
        /\ UNCHANGED <<status, composer, screen, read, origin, spent>>
    BY <1>1 DEF TakeReply, Answered, pageVars, TypeOK
  <1>3. row \in Message /\ row.text = c.text /\ row.polished = c.polished
    BY <1>1, <1>2, CallFields DEF Message
  <1>4. /\ thread' \in Seq(Message) /\ Len(thread) \in Nat
        /\ Len(thread') = Len(thread) + 1
        /\ DOMAIN thread = 1..Len(thread) /\ DOMAIN thread' = 1..(Len(thread) + 1)
        /\ \A i \in DOMAIN thread : thread'[i] = thread[i]
        /\ thread'[Len(thread) + 1] = row
    BY <1>2, <1>3, ThreadGrows
  <1>5. PICK d \in Call : /\ d = [c EXCEPT !.at = "done", !.answer = Len(thread')]
                          /\ Same(c, d) /\ d.at = "done" /\ d.answer = Len(thread')
    <2>1. Len(thread') \in Nat
      BY <1>4
    <2> QED BY <2>1, Moving, ZenonT(60)
  <1>6. calls' = (calls \ {c}) \cup {d}
    BY <1>2, <1>5
  <1>7. ~Out(d) /\ ~Coming(d) /\ Out(c) /\ d.kind = "send"
    BY <1>2, <1>5 DEF Same, Out, Coming
  <1>8. calls' \subseteq Call /\ LocksInv' /\ IntentInv'
    BY <1>2, <1>5, <1>6, Moved
  <1>9. TypeOK'
    BY <1>2, <1>4, <1>8 DEF TypeOK
  <1>10. BoxInv'
    BY <1>2 DEF BoxInv
  <1>11. RowsInv'
    BY <1>2, <1>3, <1>4 DEF RowsInv, CallsInv, CallInv
  <1>12. CallsInv'
    <2>1. CallInv(c)
      BY DEF CallsInv
    <2>2. CallInv(d)'
      BY <2>1, <1>2, <1>3, <1>4, <1>5, <1>7 DEF CallInv, Same, Coming
    <2>3. \A e \in calls : CallInv(e)'
      BY <1>2, <1>4 DEF CallsInv, CallInv, Coming
    <2> QED BY <1>6, <2>2, <2>3 DEF CallsInv
  <1>13. HoldersApart'
    <2>1. \A e \in calls' : Out(e) \/ Coming(e) => e \in calls
      BY <1>6, <1>7
    <2>2. \A e \in calls : Coming(e) => \A i \in DOMAIN thread' :
             thread'[i].text # e.answer /\ thread'[i].polished # e.answer
      BY <1>3, <1>4, <1>7 DEF HoldersApart
    <2>3. \A e, f \in calls' :
            Out(e) /\ Out(f) /\ e # f =>
               /\ e.text # f.text
               /\ e.polished # 0 => e.polished # f.polished
      BY <2>1 DEF HoldersApart
    <2>4. \A e \in calls' :
            Out(e) /\ e.mount # composer.mount =>
               /\ e.text # composer.text /\ e.text # composer.prePolish
               /\ e.polished # 0 => e.polished # composer.polishedDraft
      BY <2>1 DEF HoldersApart
    <2>5. \A e, f \in calls' : Coming(e) /\ Coming(f) /\ e # f => e.answer # f.answer
      BY <2>1 DEF HoldersApart
    <2>6. \A e \in calls' : Coming(e) =>
            /\ e.answer # composer.text /\ e.answer # composer.prePolish
            /\ e.answer # composer.polishedDraft
            /\ \A f \in calls' : Out(f) => f.text # e.answer /\ f.polished # e.answer
      BY <2>1 DEF HoldersApart
    <2> QED BY <1>2, <2>1, <2>2, <2>3, <2>4, <2>5, <2>6 DEF HoldersApart, Out, Coming
  <1>14. c.mount = composer.mount => OwnDone'
    BY <1>2, <1>5, <1>6, <1>7, ZenonT(60) DEF OwnDone, Same
  <1>15. OwnDone => OwnDone'
    BY <1>2, <1>6 DEF OwnDone
  <1>16. CopiesInv'
    <2> SUFFICES ASSUME NEW n \in 1..MaxTexts
                 PROVE  /\ Cardinality(Copies(n))' <= 1 + spent.failures
                        /\ MayBeSent(n)' => Cardinality(Copies(n))' <= spent.failures
      BY <1>2 DEF CopiesInv
    <2>1. /\ Cardinality(Copies(n)) <= 1 + spent.failures
          /\ MayBeSent(n) => Cardinality(Copies(n)) <= spent.failures
          /\ Cardinality(Copies(n)) \in Nat /\ spent.failures \in Nat
      BY CopiesFinite DEF CopiesInv, TypeOK
    <2>2. CASE c.text = n
      <3>1. MayBeSent(n)
        BY <1>7, <2>2 DEF MayBeSent
      <3>2. Cardinality(Copies(n))' = Cardinality(Copies(n)) + 1
        BY <1>2, <1>3, <2>2, CopiesGrow
      <3>3. ~MayBeSent(n)'
        <4>1. \A e \in calls' : Out(e) => e.text # n
          BY <1>6, <1>7, <2>2 DEF HoldersApart
        <4>2. c.mount # composer.mount => n # composer.text /\ n # composer.prePolish
          BY <1>7, <2>2 DEF HoldersApart
        <4> QED BY <1>2, <1>14, <4>1, <4>2 DEF MayBeSent, Out
      <3> QED BY <2>1, <3>1, <3>2, <3>3
    <2>3. CASE c.text # n
      <3>1. Copies(n)' = Copies(n)
        BY <1>2, <1>3, <2>3, CopiesGrow
      <3>2. MayBeSent(n)' => MayBeSent(n)
        BY <1>2, <1>6, <1>7, <1>15 DEF MayBeSent, Out
      <3> QED BY <2>1, <3>1, <3>2
    <2> QED BY <2>2, <2>3
  <1>17. DraftsInv'
    <2> SUFFICES ASSUME spent.failures = 0
                 PROVE  /\ \A i, j \in DOMAIN thread' :
                             i # j /\ thread'[i].polished # 0 =>
                                thread'[i].polished # thread'[j].polished
                        /\ \A i \in DOMAIN thread' :
                             thread'[i].polished # 0 =>
                                /\ \A e \in calls' : Out(e) =>
                                      thread'[i].polished # e.polished
                                /\ ~OwnDone' =>
                                      thread'[i].polished # composer.polishedDraft
      BY <1>2 DEF DraftsInv, Out
    <2>1. \A i \in DOMAIN thread : thread[i].polished # 0 => thread[i].polished # c.polished
      BY <1>7 DEF DraftsInv
    <2>2. \A e \in calls' : Out(e) => e \in calls /\ e # c
      BY <1>6, <1>7
    <2>3. c.polished # 0 =>
            /\ \A e \in calls' : Out(e) => c.polished # e.polished
            /\ ~OwnDone' => c.polished # composer.polishedDraft
      BY <1>7, <1>14, <2>2 DEF HoldersApart
    <2>4. \A i, j \in DOMAIN thread' :
             i # j /\ thread'[i].polished # 0 => thread'[i].polished # thread'[j].polished
      BY <1>3, <1>4, <2>1 DEF DraftsInv
    <2>5. \A i \in DOMAIN thread' :
             thread'[i].polished # 0 =>
                /\ \A e \in calls' : Out(e) => thread'[i].polished # e.polished
                /\ ~OwnDone' => thread'[i].polished # composer.polishedDraft
      BY <1>3, <1>4, <1>15, <2>2, <2>3 DEF DraftsInv
    <2> QED BY <2>4, <2>5
  <1>18. PageInv'
    BY <1>2, PageNoted DEF pageVars
  <1> QED BY <1>8, <1>9, <1>10, <1>11, <1>12, <1>13, <1>16, <1>17, <1>18

LEMMA TakeDraftKeeps ==
  ASSUME ComposerInductive, NEW c \in calls, TakeDraft(c)
  PROVE  ComposerInductive'
  <1> USE DEF ComposerInductive, TextsInv
  <1>1. /\ c \in Call /\ c.kind = "polish" /\ c.at = "out"
        /\ Len(origin) < MaxTexts /\ origin' = Append(origin, c.text)
        /\ calls' = (calls \ {c}) \cup
                       {[c EXCEPT !.at = "done", !.answer = Len(origin')]}
        /\ UNCHANGED <<thread, status, events, composer, screen, read, spent>>
    BY DEF TakeDraft, Answered, serverVars, pageVars, TypeOK
  <1>2. /\ origin' \in Seq(Text) /\ Len(origin') <= MaxTexts
        /\ Len(origin) \in Nat /\ Len(origin') = Len(origin) + 1
        /\ DOMAIN origin = 1..Len(origin) /\ DOMAIN origin' = 1..(Len(origin) + 1)
        /\ \A i \in DOMAIN origin : origin'[i] = origin[i]
        /\ origin'[Len(origin) + 1] = c.text
    BY <1>1, CallFields, OriginGrows
  <1>3. PICK d \in Call : /\ d = [c EXCEPT !.at = "done", !.answer = Len(origin')]
                          /\ Same(c, d) /\ d.at = "done" /\ d.answer = Len(origin')
    <2>1. Len(origin') \in Nat
      BY <1>2
    <2> QED BY <2>1, Moving, ZenonT(60)
  <1>4. calls' = (calls \ {c}) \cup {d}
    BY <1>1, <1>3
  <1>5. calls' \subseteq Call /\ LocksInv' /\ IntentInv'
    BY <1>1, <1>3, <1>4, Moved
  <1>6. TypeOK'
    BY <1>1, <1>2, <1>5 DEF TypeOK
  <1>7. CallInv(c) /\ c.text \in Nat
    BY <1>1, CallFields DEF CallsInv
  <1>8. BoxInv'
    BY <1>1, <1>2, <1>7, BoxFields DEF BoxInv, CallInv
  <1>9. RowsInv'
    BY <1>1, <1>2, Rows DEF RowsInv
  <1>10. d.kind = "polish" /\ ~Out(d) /\ ~Out(c) /\ Coming(d)
    BY <1>1, <1>3 DEF Same, Out, Coming
  <1>11. CallsInv'
    <2>1. CallInv(d)'
      BY <1>1, <1>2, <1>3, <1>7, <1>10 DEF CallInv, Same, Coming
    <2>2. \A e \in calls : CallInv(e)'
      <3> SUFFICES ASSUME NEW e \in calls PROVE CallInv(e)'
        OBVIOUS
      <3>1. CallInv(e) /\ e.text \in Nat
        BY CallFields DEF CallsInv, TypeOK
      <3> QED BY <3>1, <1>1, <1>2 DEF CallInv, Coming
    <2> QED BY <1>4, <2>1, <2>2 DEF CallsInv
  <1>12. HoldersApart'
    <2>1. \A e \in calls' : Out(e) => e \in calls
      BY <1>4, <1>10
    <2>2. \A e \in calls : e.text <= Len(origin) /\ e.polished <= Len(origin)
                           /\ e.text \in Nat /\ e.polished \in Nat
      BY <1>2, CallFields, SMTT(30) DEF CallsInv, CallInv, TypeOK
    <2>3. \A e \in calls : Coming(e) => e.answer <= Len(origin)
      BY <1>2 DEF CallsInv, CallInv
    <2>4. \A i \in DOMAIN thread :
             thread[i].text <= Len(origin) /\ thread[i].polished <= Len(origin)
             /\ thread[i].text \in Nat /\ thread[i].polished \in Nat
      BY <1>2, Rows DEF RowsInv
    <2>5. /\ composer.text <= Len(origin) /\ composer.prePolish <= Len(origin)
          /\ composer.polishedDraft <= Len(origin)
      BY <1>2, BoxFields DEF BoxInv
    <2>6. d.answer = Len(origin) + 1
      BY <1>2, <1>3
    <2>7. \A e, f \in calls' :
            Out(e) /\ Out(f) /\ e # f =>
               /\ e.text # f.text
               /\ e.polished # 0 => e.polished # f.polished
      BY <2>1 DEF HoldersApart
    <2>8. \A e \in calls' :
            Out(e) /\ e.mount # composer.mount =>
               /\ e.text # composer.text /\ e.text # composer.prePolish
               /\ e.polished # 0 => e.polished # composer.polishedDraft
      BY <2>1 DEF HoldersApart
    <2>9. \A e \in calls' : Coming(e) => e = d \/ (e \in calls /\ e.answer <= Len(origin))
      BY <1>4, <2>3
    <2>10. \A e, f \in calls' : Coming(e) /\ Coming(f) /\ e # f => e.answer # f.answer
      BY <1>2, <2>6, <2>9 DEF HoldersApart
    <2>11. \A e \in calls' : Coming(e) =>
            /\ e.answer # composer.text /\ e.answer # composer.prePolish
            /\ e.answer # composer.polishedDraft
      BY <1>2, <2>5, <2>6, <2>9, BoxFields DEF HoldersApart
    <2>12. \A e \in calls' : Coming(e) =>
             \A f \in calls' : Out(f) => f.text # e.answer /\ f.polished # e.answer
      BY <1>2, <2>1, <2>2, <2>6, <2>9 DEF HoldersApart
    <2>13. \A e \in calls' : Coming(e) =>
             \A i \in DOMAIN thread :
                thread[i].text # e.answer /\ thread[i].polished # e.answer
      BY <1>2, <2>4, <2>6, <2>9 DEF HoldersApart
    <2> QED BY <1>1, <2>7, <2>8, <2>10, <2>11, <2>12, <2>13 DEF HoldersApart, Out, Coming
  <1>13. OwnDone' <=> OwnDone
    BY <1>1, <1>4, <1>10 DEF OwnDone
  <1>14. CopiesInv' /\ DraftsInv'
    <2>1. \A e \in calls' : Out(e) => e \in calls
      BY <1>4, <1>10
    <2>2. \A n : MayBeSent(n)' => MayBeSent(n)
      BY <1>1, <1>13, <2>1 DEF MayBeSent, Out
    <2>3. CopiesInv'
      BY <1>1, <2>2 DEF CopiesInv, Copies
    <2>4. DraftsInv'
      BY <1>1, <1>13, <2>1 DEF DraftsInv, Out
    <2> QED BY <2>3, <2>4
  <1>15. PageInv'
    BY <1>1, PageKept DEF serverVars, pageVars
  <1> QED BY <1>5, <1>6, <1>8, <1>9, <1>11, <1>12, <1>14, <1>15

(* A request that has been answered, or has failed, holds nothing more.    *)
LEMMA SettledHolds ==
  ASSUME ComposerInductive, NEW c \in calls, NEW d \in Call, Same(c, d),
         calls' = (calls \ {c}) \cup {d}, ~Out(d), ~Coming(d),
         UNCHANGED <<thread, composer, origin>>,
         d.at = "done" => d.kind # "send"
  PROVE  /\ CallsInv' /\ HoldersApart'
         /\ \A e \in calls' : Out(e) => e \in calls
  <1> USE DEF ComposerInductive, TextsInv
  <1>1. \A e \in calls' : Out(e) \/ Coming(e) => e \in calls
    OBVIOUS
  <1>2. CallsInv'
    <2>1. CallInv(c)
      BY DEF CallsInv
    <2>2. CallInv(d)'
      BY <2>1 DEF CallInv, Same, Coming
    <2>3. \A e \in calls : CallInv(e)'
      BY DEF CallsInv, CallInv, Coming
    <2> QED BY <2>2, <2>3 DEF CallsInv
  <1>3. HoldersApart'
    <2>1. \A e, f \in calls' :
            Out(e) /\ Out(f) /\ e # f =>
               /\ e.text # f.text
               /\ e.polished # 0 => e.polished # f.polished
      BY <1>1 DEF HoldersApart
    <2>2. \A e \in calls' :
            Out(e) /\ e.mount # composer.mount =>
               /\ e.text # composer.text /\ e.text # composer.prePolish
               /\ e.polished # 0 => e.polished # composer.polishedDraft
      BY <1>1 DEF HoldersApart
    <2>3. \A e, f \in calls' : Coming(e) /\ Coming(f) /\ e # f => e.answer # f.answer
      BY <1>1 DEF HoldersApart
    <2>4. \A e \in calls' : Coming(e) =>
            /\ e.answer # composer.text /\ e.answer # composer.prePolish
            /\ e.answer # composer.polishedDraft
            /\ \A f \in calls' : Out(f) => f.text # e.answer /\ f.polished # e.answer
            /\ \A i \in DOMAIN thread :
                  thread[i].text # e.answer /\ thread[i].polished # e.answer
      BY <1>1 DEF HoldersApart
    <2> QED BY <2>1, <2>2, <2>3, <2>4 DEF HoldersApart, Out, Coming
  <1> QED BY <1>1, <1>2, <1>3

LEMMA TakeStatusKeeps ==
  ASSUME ComposerInductive, NEW c \in calls, TakeStatus(c)
  PROVE  ComposerInductive'
  <1> USE DEF ComposerInductive, TextsInv
  <1>1. /\ c \in Call /\ c.kind \in {"resolve", "pick"} /\ c.at = "out"
        /\ status' = c.status
        /\ events' = IF status' # status THEN events + 1 ELSE events
        /\ calls' = (calls \ {c}) \cup {[c EXCEPT !.at = "done", !.answer = 0]}
        /\ UNCHANGED <<thread, composer, screen, read, origin, spent>>
    BY DEF TakeStatus, Answered, pageVars, TypeOK
  <1>2. PICK d \in Call : /\ d = [c EXCEPT !.at = "done", !.answer = 0]
                          /\ Same(c, d) /\ d.at = "done" /\ d.answer = 0
    BY Moving, ZenonT(60)
  <1>3. calls' = (calls \ {c}) \cup {d}
    BY <1>1, <1>2
  <1>4. calls' \subseteq Call /\ LocksInv' /\ IntentInv'
    BY <1>1, <1>2, <1>3, Moved
  <1>5. c.status \in Status
    BY <1>1 DEF CallsInv, CallInv
  <1>6. TypeOK'
    BY <1>1, <1>4, <1>5 DEF TypeOK
  <1>7. BoxInv' /\ RowsInv'
    BY <1>1 DEF BoxInv, RowsInv
  <1>8. d.kind = c.kind /\ ~Out(d) /\ ~Coming(d)
    BY <1>1, <1>2 DEF Same, Out, Coming
  <1>9. CallsInv' /\ HoldersApart' /\ \A e \in calls' : Out(e) => e \in calls
    BY <1>1, <1>2, <1>3, <1>8, SettledHolds
  <1>10. OwnDone' <=> OwnDone
    BY <1>1, <1>3, <1>8 DEF OwnDone
  <1>11. \A n : MayBeSent(n)' => MayBeSent(n)
    BY <1>1, <1>9, <1>10 DEF MayBeSent, Out
  <1>12. CopiesInv'
    BY <1>1, <1>11 DEF CopiesInv, Copies
  <1>13. DraftsInv'
    BY <1>1, <1>9, <1>10 DEF DraftsInv, Out
  <1>14. PageInv'
    <2>1. CASE status' # status
      BY <1>1, <2>1, PageNoted DEF pageVars
    <2>2. CASE status' = status
      BY <1>1, <2>2, PageKept DEF serverVars, pageVars
    <2> QED BY <2>1, <2>2
  <1> QED BY <1>4, <1>6, <1>7, <1>9, <1>12, <1>13, <1>14

LEMMA FailKeeps ==
  ASSUME ComposerInductive, NEW c \in calls, Fail(c)
  PROVE  ComposerInductive'
  <1> USE DEF ComposerInductive, TextsInv
  <1>1. /\ c \in Call /\ c.at \in {"out", "done"} /\ Spend("failures", MaxFailures)
        /\ calls' = (calls \ {c}) \cup {[c EXCEPT !.at = "failed", !.answer = 0]}
        /\ UNCHANGED <<thread, status, events, composer, screen, read, origin>>
    BY DEF Fail, serverVars, pageVars, TypeOK
  <1>2. PICK d \in Call : /\ d = [c EXCEPT !.at = "failed", !.answer = 0]
                          /\ Same(c, d) /\ d.at = "failed" /\ d.answer = 0
    BY Moving, ZenonT(60)
  <1>3. calls' = (calls \ {c}) \cup {d}
    BY <1>1, <1>2
  <1>4. /\ spent' \in Budget /\ spent'.failures = spent.failures + 1
        /\ spent.failures \in Nat /\ spent'.refused = spent.refused
    BY <1>1, SpendFailure
  <1>5. calls' \subseteq Call /\ LocksInv' /\ IntentInv'
    BY <1>1, <1>2, <1>3, <1>4, Moved
  <1>6. TypeOK'
    BY <1>1, <1>4, <1>5 DEF TypeOK, Budget
  <1>7. BoxInv' /\ RowsInv'
    BY <1>1 DEF BoxInv, RowsInv
  <1>8. ~Out(d) /\ ~Coming(d)
    BY <1>2 DEF Out, Coming
  <1>9. CallsInv' /\ HoldersApart'
    BY <1>1, <1>2, <1>3, <1>8, SettledHolds
  <1>10. CopiesInv'
    <2>1. \A n : Copies(n)' = Copies(n)
      BY <1>1 DEF Copies
    <2>2. \A n \in 1..MaxTexts : /\ Cardinality(Copies(n)) \in Nat
                                 /\ Cardinality(Copies(n)) <= spent'.failures
      BY <1>4, CopiesFinite DEF CopiesInv
    <2> QED BY <1>4, <2>1, <2>2 DEF CopiesInv
  <1>11. DraftsInv'
    BY <1>4 DEF DraftsInv
  <1>12. PageInv'
    BY <1>1, PageKept DEF serverVars, pageVars
  <1> QED BY <1>5, <1>6, <1>7, <1>9, <1>10, <1>11, <1>12

LEMMA OthersWriteKeeps ==
  ASSUME ComposerInductive, OthersWrite
  PROVE  ComposerInductive'
  <1> USE DEF ComposerInductive, TextsInv
  <1>1. /\ Spend("others", MaxOthers) /\ events' = events + 1
        /\ UNCHANGED <<composer, calls, screen, read, origin>>
    BY DEF OthersWrite, pageVars
  <1>2. /\ spent' \in Budget /\ spent'.failures = spent.failures
        /\ spent'.refused = spent.refused
    BY <1>1, SpendOther
  <1>3. LocksInv' /\ BoxInv' /\ IntentInv'
    BY <1>1, <1>2 DEF LocksInv, OneCallEach, BoxInv, IntentInv
  <1>4. PageInv'
    BY <1>1, PageNoted DEF pageVars
  <1>5. OwnDone' <=> OwnDone
    BY <1>1 DEF OwnDone
  <1>6. CASE UNCHANGED thread /\ status' \in Status
    <2>1. TypeOK'
      BY <1>1, <1>2, <1>6 DEF TypeOK, Budget
    <2>2. RowsInv' /\ CallsInv' /\ HoldersApart'
      BY <1>1, <1>6 DEF RowsInv, CallsInv, CallInv, HoldersApart, Out, Coming
    <2>3. CopiesInv' /\ DraftsInv'
      BY <1>1, <1>2, <1>5, <1>6 DEF CopiesInv, Copies, MayBeSent, DraftsInv, Out
    <2> QED BY <1>3, <1>4, <2>1, <2>2, <2>3
  <1>7. CASE /\ thread' = Append(thread, [by |-> "customer", text |-> 0, polished |-> 0])
             /\ UNCHANGED status
    <2>1. PICK row : row = [by |-> "customer", text |-> 0, polished |-> 0]
      OBVIOUS
    <2>2. row \in Message /\ row.text = 0 /\ row.polished = 0
      BY <2>1, ComposerAssumption DEF Message, Text
    <2>3. /\ thread' \in Seq(Message) /\ Len(thread) \in Nat
          /\ DOMAIN thread = 1..Len(thread) /\ DOMAIN thread' = 1..(Len(thread) + 1)
          /\ \A i \in DOMAIN thread : thread'[i] = thread[i]
          /\ thread'[Len(thread) + 1] = row
      BY <1>7, <2>1, <2>2, ThreadGrows
    <2>4. TypeOK'
      BY <1>1, <1>2, <1>7, <2>3 DEF TypeOK, Budget
    <2>5. RowsInv'
      BY <1>1, <2>2, <2>3, Origins DEF RowsInv
    <2>6. CallsInv'
      BY <1>1, <2>3 DEF CallsInv, CallInv, Coming
    <2>7. HoldersApart'
      <3>1. \A e \in calls : Coming(e) => e.answer # 0
        BY Origins DEF CallsInv, CallInv
      <3>2. \A e \in calls : Coming(e) => \A i \in DOMAIN thread' :
               thread'[i].text # e.answer /\ thread'[i].polished # e.answer
        BY <2>2, <2>3, <3>1 DEF HoldersApart
      <3> QED BY <1>1, <3>2 DEF HoldersApart, Out, Coming
    <2>8. CopiesInv'
      <3> SUFFICES ASSUME NEW n \in 1..MaxTexts
                   PROVE  /\ Cardinality(Copies(n))' <= 1 + spent.failures
                          /\ MayBeSent(n)' => Cardinality(Copies(n))' <= spent.failures
        BY <1>2 DEF CopiesInv
      <3>1. Copies(n)' = Copies(n)
        <4>1. row.text # n
          BY <2>2, ComposerAssumption
        <4> QED BY <1>7, <2>1, <2>2, <4>1, CopiesGrow
      <3>2. MayBeSent(n)' => MayBeSent(n)
        BY <1>1, <1>5 DEF MayBeSent, Out
      <3> QED BY <3>1, <3>2 DEF CopiesInv
    <2>9. DraftsInv'
      <3> SUFFICES ASSUME spent.failures = 0
                   PROVE  /\ \A i, j \in DOMAIN thread' :
                               i # j /\ thread'[i].polished # 0 =>
                                  thread'[i].polished # thread'[j].polished
                          /\ \A i \in DOMAIN thread' :
                               thread'[i].polished # 0 =>
                                  /\ \A e \in calls : Out(e) =>
                                        thread'[i].polished # e.polished
                                  /\ ~OwnDone =>
                                        thread'[i].polished # composer.polishedDraft
        BY <1>1, <1>2, <1>5 DEF DraftsInv, Out
      <3> QED BY <2>2, <2>3 DEF DraftsInv
    <2> QED BY <1>3, <1>4, <2>4, <2>5, <2>6, <2>7, <2>8, <2>9
  <1> QED BY <1>6, <1>7 DEF OthersWrite

-----------------------------------------------------------------------------
(* Answers at the page.                                                    *)

LEMMA EmptyBox ==
  ASSUME NEW m \in Nat
  PROVE  /\ EMPTY_REPLY(m) \in Box
         /\ EMPTY_REPLY(m).mounted = TRUE /\ EMPTY_REPLY(m).mount = m
         /\ EMPTY_REPLY(m).text = 0 /\ EMPTY_REPLY(m).prePolish = 0
         /\ EMPTY_REPLY(m).polishedDraft = 0 /\ EMPTY_REPLY(m).resolveOnSend = FALSE
  BY ComposerAssumption DEF EMPTY_REPLY, Box, Text

(* A row goes on the screen unless a read has already put it there.        *)
LEMMA BubbleDrawn ==
  ASSUME TypeOK, PageInv, NEW n \in Nat
  PROVE  appendMessage(n) \in Seq(Nat) /\ IsInjective(appendMessage(n))
  <1>1. PICK m : m = screen.messages
    OBVIOUS
  <1>2. m \in Seq(Nat) /\ IsInjective(m)
    BY <1>1 DEF TypeOK, PageInv
  <1>3. CASE n \in Range(m)
    BY <1>1, <1>2, <1>3 DEF appendMessage
  <1>4. CASE n \notin Range(m)
    <2>1. appendMessage(n) = Append(m, n)
      BY <1>1, <1>4 DEF appendMessage
    <2>2. /\ Append(m, n) \in Seq(Nat) /\ Len(m) \in Nat
          /\ DOMAIN m = 1..Len(m) /\ DOMAIN Append(m, n) = 1..(Len(m) + 1)
          /\ \A i \in DOMAIN m : Append(m, n)[i] = m[i]
          /\ Append(m, n)[Len(m) + 1] = n
      BY <1>2, AppendFacts
    <2>3. \A i \in DOMAIN m : m[i] # n
      BY <1>4 DEF Range
    <2>4. \A i, j \in DOMAIN Append(m, n) : Append(m, n)[i] = Append(m, n)[j] => i = j
      BY <1>2, <2>2, <2>3 DEF IsInjective
    <2> QED BY <2>1, <2>2, <2>4 DEF IsInjective
  <1> QED BY <1>3, <1>4

LEMMA OwnMeansHere ==
  ASSUME ComposerInductive, NEW c \in calls
  PROVE  Own(c) <=> c.mount = composer.mount
  BY DEF ComposerInductive, TextsInv, LocksInv, Own

LEMMA SentKeeps ==
  ASSUME ComposerInductive, NEW c \in calls, Sent(c)
  PROVE  ComposerInductive'
  <1> USE DEF ComposerInductive, TextsInv
  <1>1. /\ c \in Call /\ c.kind = "send" /\ c.at = "done"
        /\ screen' = [screen EXCEPT !.messages = appendMessage(c.answer), !.marked = TRUE]
        /\ composer' = IF Own(c) THEN EMPTY_REPLY(c.mount) ELSE composer
        /\ UNCHANGED <<thread, status, events, read, origin, spent>>
    BY DEF Sent, serverVars, TypeOK
  <1>2. PICK r \in Call :
          /\ r = [NewCall("resolve") EXCEPT !.mount = c.mount, !.status = "Resolved",
                                            !.asked = c.asked]
          /\ r.kind = "resolve" /\ r.mount = c.mount /\ r.text = 0
          /\ r.polished = 0 /\ r.status = "Resolved" /\ r.asked = c.asked
          /\ r.intent = FALSE /\ r.at = "out" /\ r.answer = 0
    <2>1. c.mount \in Nat /\ c.asked \in BOOLEAN
      BY <1>1, CallFields, Zenon
    <2> QED BY <2>1, NewResolve, ZenonT(60)
  <1>3. \/ calls' = calls \ {c}
        \/ /\ calls' = (calls \ {c}) \cup {r}
           /\ IF Own(c) THEN composer.resolveOnSend ELSE c.intent
    <2> DEFINE Intended == IF Own(c) THEN composer.resolveOnSend ELSE c.intent
    <2>1. Settle(c, IF Intended THEN {r} ELSE {})
      BY <1>2, Zenon DEF Sent
    <2>2. CASE Intended
      BY <2>1, <2>2, Zenon DEF Settle
    <2>3. CASE ~Intended
      <3>1. calls' = (calls \ {c}) \cup {}
        BY <2>1, <2>3, Zenon DEF Settle
      <3> QED BY <3>1
    <2> QED BY <2>2, <2>3
  <1>4. \A e \in calls' : e = r \/ (e \in calls /\ e # c)
    BY <1>3
  <1>5. /\ composer' \in Box /\ composer'.mounted = composer.mounted
        /\ composer'.mount = composer.mount
        /\ Own(c) => /\ composer'.text = 0 /\ composer'.prePolish = 0
                     /\ composer'.polishedDraft = 0 /\ composer'.resolveOnSend = FALSE
        /\ ~Own(c) => composer' = composer /\ c.mount # composer.mount
    <2>1. CASE Own(c)
      <3>1. composer' = EMPTY_REPLY(c.mount) /\ c.mount = composer.mount
            /\ composer.mounted = TRUE /\ c.mount \in Nat
        BY <1>1, <2>1, BoxFields, CallFields DEF Own
      <3>2. /\ composer' \in Box /\ composer'.mounted = TRUE /\ composer'.mount = c.mount
            /\ composer'.text = 0 /\ composer'.prePolish = 0
            /\ composer'.polishedDraft = 0 /\ composer'.resolveOnSend = FALSE
        BY <3>1, EmptyBox, Zenon
      <3> QED BY <2>1, <3>1, <3>2, Zenon
    <2>2. CASE ~Own(c)
      BY <1>1, <2>2, BoxFields, OwnMeansHere
    <2> QED BY <2>1, <2>2
  <1>6. \A e \in calls : e.mount = c.mount /\ e.kind # "pick" => e = c
    BY <1>1 DEF LocksInv, OneCallEach
  <1>7. ~Out(r) /\ ~Coming(r) /\ ~Out(c)
    BY <1>1, <1>2 DEF Out, Coming
  <1>8. /\ screen' \in [messages : Seq(Nat), status : Status, marked : BOOLEAN]
        /\ IsInjective(screen'.messages) /\ screen'.marked = TRUE
    <2>1. PICK m : m = appendMessage(c.answer)
      OBVIOUS
    <2>2. m \in Seq(Nat) /\ IsInjective(m)
      BY <1>1, <2>1, CallFields, BubbleDrawn
    <2>3. screen' = [screen EXCEPT !.messages = m, !.marked = TRUE]
      BY <1>1, <2>1
    <2>4. screen' \in [messages : Seq(Nat), status : Status, marked : BOOLEAN]
      BY <2>2, <2>3 DEF TypeOK
    <2>5. screen'.messages = m /\ screen'.marked = TRUE
      BY <2>3 DEF TypeOK
    <2> QED BY <2>2, <2>4, <2>5
  <1>9. TypeOK'
    <2>1. calls' \subseteq Call
      BY <1>3 DEF TypeOK
    <2> QED BY <1>1, <1>5, <1>8, <2>1 DEF TypeOK
  <1>10. LocksInv'
    <2>1. OneCallEach'
      <3> SUFFICES ASSUME NEW e \in calls', NEW f \in calls', e.mount = f.mount,
                          e.kind = "pick" <=> f.kind = "pick"
                   PROVE  e = f
        BY DEF OneCallEach
      <3>1. CASE e # r /\ f # r
        BY <1>4, <3>1 DEF LocksInv, OneCallEach
      <3>2. \A g \in calls' : g.mount = r.mount /\ g.kind # "pick" => g = r
        BY <1>2, <1>4, <1>6
      <3>3. CASE e = r
        BY <1>2, <3>2, <3>3
      <3>4. CASE f = r
        BY <1>2, <3>2, <3>4
      <3> QED BY <3>1, <3>3, <3>4
    <2>2. \A e \in calls' : e.mount <= composer'.mount
      BY <1>2, <1>4, <1>5 DEF LocksInv
    <2>3. ~composer'.mounted => \A e \in calls' : e.mount # composer'.mount
      BY <1>2, <1>4, <1>5 DEF LocksInv
    <2> QED BY <2>1, <2>2, <2>3 DEF LocksInv
  <1>11. BoxInv' /\ RowsInv'
    <2>1. BoxInv'
      BY <1>1, <1>5, Origins DEF BoxInv
    <2>2. RowsInv'
      BY <1>1 DEF RowsInv
    <2> QED BY <2>1, <2>2
  <1>12. CallsInv'
    <2>1. CallInv(r)'
      BY <1>1, <1>2, Origins DEF CallInv, Coming, Status
    <2>2. \A e \in calls : e # c => CallInv(e)'
      <3> SUFFICES ASSUME NEW e \in calls, e # c PROVE CallInv(e)'
        OBVIOUS
      <3>1. CallInv(e)
        BY DEF CallsInv
      <3>2. CASE Own(c)
        <4>1. e.mount = composer.mount => e.kind = "pick"
          BY <1>6, <3>2 DEF Own
        <4> QED BY <1>1, <1>5, <3>1, <4>1 DEF CallInv, Coming
      <3>3. CASE ~Own(c)
        BY <1>1, <1>5, <3>1, <3>3 DEF CallInv, Coming
      <3> QED BY <3>2, <3>3
    <2> QED BY <1>4, <2>1, <2>2 DEF CallsInv
  <1>13. IntentInv'
    <2> SUFFICES ASSUME spent.refused = 0
                 PROVE  /\ \A e \in calls' :
                             (e.kind = "send" /\ e.intent) \/ e.kind = "resolve" => e.asked
                        /\ composer'.resolveOnSend =>
                             \E e \in calls' : /\ e.kind = "send" /\ e.asked
                                               /\ e.mount = composer'.mount
      BY <1>1 DEF IntentInv
    <2>1. r \in calls' /\ r \notin calls \ {c} => c.asked
      <3>1. CASE Own(c)
        <4>1. composer.resolveOnSend => c.asked
          BY <1>6, <3>1 DEF IntentInv, Own
        <4> QED BY <1>3, <3>1, <4>1
      <3>2. CASE ~Own(c)
        BY <1>1, <1>3, <3>2 DEF IntentInv
      <3> QED BY <3>1, <3>2
    <2>2. \A e \in calls' :
             (e.kind = "send" /\ e.intent) \/ e.kind = "resolve" => e.asked
      BY <1>2, <1>4, <2>1 DEF IntentInv
    <2>3. composer'.resolveOnSend =>
             \E e \in calls' : e.kind = "send" /\ e.asked /\ e.mount = composer'.mount
      BY <1>3, <1>5 DEF IntentInv
    <2> QED BY <2>2, <2>3
  <1>14. HoldersApart'
    <2>1. \A e \in calls' : Out(e) \/ Coming(e) => e \in calls
      BY <1>4, <1>7
    <2>2. \A e \in calls : /\ Out(e) => e.text # 0
                           /\ Coming(e) => e.answer # 0
      BY Origins DEF CallsInv, CallInv, Out
    <2>3. \A e, f \in calls' :
            Out(e) /\ Out(f) /\ e # f =>
               /\ e.text # f.text
               /\ e.polished # 0 => e.polished # f.polished
      BY <2>1 DEF HoldersApart
    <2>4. \A e \in calls' :
            Out(e) /\ e.mount # composer'.mount =>
               /\ e.text # composer'.text /\ e.text # composer'.prePolish
               /\ e.polished # 0 => e.polished # composer'.polishedDraft
      BY <1>5, <2>1, <2>2 DEF HoldersApart
    <2>5. \A e, f \in calls' : Coming(e) /\ Coming(f) /\ e # f => e.answer # f.answer
      BY <2>1 DEF HoldersApart
    <2>6. \A e \in calls' : Coming(e) =>
            /\ e.answer # composer'.text /\ e.answer # composer'.prePolish
            /\ e.answer # composer'.polishedDraft
            /\ \A f \in calls' : Out(f) => f.text # e.answer /\ f.polished # e.answer
            /\ \A i \in DOMAIN thread :
                  thread[i].text # e.answer /\ thread[i].polished # e.answer
      BY <1>5, <2>1, <2>2 DEF HoldersApart
    <2> QED BY <1>1, <2>3, <2>4, <2>5, <2>6 DEF HoldersApart, Out, Coming
  <1>15. ~Own(c) => (OwnDone' <=> OwnDone)
    BY <1>2, <1>3, <1>5, ZenonT(60) DEF OwnDone
  <1>16. \A n \in 1..MaxTexts : MayBeSent(n)' => MayBeSent(n)
    <2> SUFFICES ASSUME NEW n \in 1..MaxTexts, MayBeSent(n)' PROVE MayBeSent(n)
      OBVIOUS
    <2>1. CASE \E e \in calls' : Out(e) /\ e.text = n
      BY <1>4, <1>7, <2>1 DEF MayBeSent
    <2>2. CASE ~\E e \in calls' : Out(e) /\ e.text = n
      <3>1. (n = composer'.text \/ n = composer'.prePolish) /\ ~OwnDone'
        BY <2>2 DEF MayBeSent, Out
      <3>2. n # 0
        BY ComposerAssumption
      <3> QED BY <1>5, <1>15, <3>1, <3>2 DEF MayBeSent
    <2> QED BY <2>1, <2>2
  <1>17. CopiesInv'
    BY <1>1, <1>16 DEF CopiesInv, Copies
  <1>18. DraftsInv'
    <2>1. \A e \in calls' : Out(e) => e \in calls
      BY <1>4, <1>7
    <2>2. CASE Own(c)
      BY <1>1, <1>5, <2>1, <2>2 DEF DraftsInv, Out
    <2>3. CASE ~Own(c)
      BY <1>1, <1>5, <1>15, <2>1, <2>3 DEF DraftsInv, Out
    <2> QED BY <2>2, <2>3
  <1>19. PageInv'
    BY <1>1, <1>5, <1>8 DEF PageInv, Shown
  <1> QED BY <1>9, <1>10, <1>11, <1>12, <1>13, <1>14, <1>17, <1>18, <1>19

LEMMA NotSentKeeps ==
  ASSUME ComposerInductive, NEW c \in calls, NotSent(c)
  PROVE  ComposerInductive'
  <1> USE DEF ComposerInductive
  <1>1. /\ c.kind = "send" /\ c.at = "failed" /\ calls' = calls \ {c}
        /\ composer' = IF Own(c) THEN [composer EXCEPT !.resolveOnSend = FALSE]
                       ELSE composer
        /\ UNCHANGED <<thread, status, events, screen, read, origin, spent>>
    BY DEF NotSent, Settle, serverVars, pageVars
  <1>2. CASE ~Own(c)
    <2>1. composer' = composer /\ c.mount # composer.mount
      BY <1>1, <1>2, OwnMeansHere
    <2>2. TextsInv'
      BY <1>1, <2>1, Dropped
    <2>3. TypeOK'
      BY <1>1, <2>1 DEF TypeOK
    <2>4. PageInv'
      BY <1>1, <2>1, PageKept DEF serverVars, pageVars
    <2> QED BY <2>2, <2>3, <2>4
  <1>3. CASE Own(c)
    <2> USE DEF TextsInv
    <2>1. /\ composer' \in Box
          /\ composer'.mounted = composer.mounted /\ composer'.mount = composer.mount
          /\ composer'.text = composer.text /\ composer'.prePolish = composer.prePolish
          /\ composer'.polishedDraft = composer.polishedDraft
          /\ composer'.resolveOnSend = FALSE
      BY <1>1, <1>3, BoxFields DEF Box
    <2>2. TypeOK'
      BY <1>1, <2>1 DEF TypeOK
    <2>3. LocksInv' /\ BoxInv' /\ RowsInv'
      BY <1>1, <2>1 DEF LocksInv, OneCallEach, BoxInv, RowsInv
    <2>4. CallsInv'
      BY <1>1, <2>1 DEF CallsInv, CallInv, Coming
    <2>5. IntentInv'
      BY <1>1, <2>1 DEF IntentInv
    <2>6. HoldersApart'
      BY <1>1, <2>1 DEF HoldersApart, Out, Coming
    <2>7. OwnDone' <=> OwnDone
      BY <1>1, <2>1 DEF OwnDone
    <2>8. CopiesInv' /\ DraftsInv'
      BY <1>1, <2>1, <2>7 DEF CopiesInv, Copies, MayBeSent, DraftsInv, Out
    <2>9. PageInv'
      BY <1>1, <2>1, PageKept DEF serverVars, pageVars
    <2> QED BY <2>2, <2>3, <2>4, <2>5, <2>6, <2>8, <2>9
  <1> QED BY <1>2, <1>3

LEMMA PolishedKeeps ==
  ASSUME ComposerInductive, NEW c \in calls, Polished(c)
  PROVE  ComposerInductive'
  <1> USE DEF ComposerInductive
  <1>1. /\ c \in Call /\ c.kind = "polish" /\ c.at # "out" /\ calls' = calls \ {c}
        /\ composer' = IF c.at = "done" /\ Own(c)
                       THEN [composer EXCEPT !.text = c.answer, !.long = FALSE,
                                             !.prePolish = c.text,
                                             !.polishedDraft = c.answer]
                       ELSE composer
        /\ UNCHANGED <<thread, status, events, screen, read, origin, spent>>
    BY DEF Polished, Settle, serverVars, pageVars, TypeOK
  <1>2. CASE ~(c.at = "done" /\ Own(c))
    <2>1. composer' = composer
      BY <1>1, <1>2
    <2>2. TextsInv'
      BY <1>1, <2>1, Dropped
    <2>3. TypeOK'
      BY <1>1, <2>1 DEF TypeOK
    <2>4. PageInv'
      BY <1>1, <2>1, PageKept DEF serverVars, pageVars
    <2> QED BY <2>2, <2>3, <2>4
  <1>3. CASE c.at = "done" /\ Own(c)
    <2> USE DEF TextsInv
    <2>1. /\ Coming(c) /\ CallInv(c) /\ c.mount = composer.mount
          /\ c.answer \in DOMAIN origin /\ origin[c.answer] = c.text
          /\ c.text = composer.text /\ c.text # 0
          /\ c.text \in Nat /\ c.text \in Text
      BY <1>1, <1>3, CallFields DEF Coming, CallsInv, CallInv, Own
    <2>2. c.answer \in Nat /\ c.answer \in Text /\ c.text < c.answer
          /\ c.answer <= Len(origin) /\ c.answer # 0
      <3>1. c.answer \in 1..Len(origin) /\ Len(origin) \in Nat
        BY <2>1, Origins
      <3>2. Len(origin) <= MaxTexts
        BY DEF TypeOK
      <3>3. c.text < c.answer
        BY <2>1 DEF BoxInv
      <3> QED BY <3>1, <3>2, <3>3, ComposerAssumption DEF Text
    <2>3. composer' = [composer EXCEPT !.text = c.answer, !.long = FALSE,
                                       !.prePolish = c.text, !.polishedDraft = c.answer]
      BY <1>1, <1>3
    <2>4. composer' \in Box
      BY <2>1, <2>2, <2>3, BoxFields, BoxWrite
    <2>5. /\ composer'.mounted = composer.mounted /\ composer'.mount = composer.mount
          /\ composer'.resolveOnSend = composer.resolveOnSend
      BY <2>3, BoxFields DEF Box
    <2>6. /\ composer'.text = c.answer /\ composer'.prePolish = c.text
          /\ composer'.polishedDraft = c.answer
      BY <2>3, BoxFields DEF Box
    <2>7. \A e \in calls : e.mount = composer.mount /\ e.kind # "pick" => e = c
      BY <1>1, <2>1 DEF LocksInv, OneCallEach
    <2>8. TypeOK'
      BY <1>1, <2>4 DEF TypeOK
    <2>9. LocksInv' /\ RowsInv'
      BY <1>1, <2>5 DEF LocksInv, OneCallEach, RowsInv
    <2>10. BoxInv'
      BY <1>1, <2>1, <2>2, <2>6 DEF BoxInv
    <2>11. CallsInv'
      <3> SUFFICES ASSUME NEW e \in calls, e # c PROVE CallInv(e)'
        BY <1>1 DEF CallsInv
      <3>1. CallInv(e)
        BY DEF CallsInv
      <3>2. e.mount = composer.mount => e.kind = "pick"
        BY <2>7
      <3> QED BY <1>1, <2>5, <3>1, <3>2 DEF CallInv, Coming
    <2>12. IntentInv'
      BY <1>1, <2>5, <2>7 DEF IntentInv
    <2>13. HoldersApart'
      <3>1. \A e, f \in calls' :
              Out(e) /\ Out(f) /\ e # f =>
                 /\ e.text # f.text
                 /\ e.polished # 0 => e.polished # f.polished
        BY <1>1 DEF HoldersApart
      <3>2. \A e \in calls' :
              Out(e) /\ e.mount # composer'.mount =>
                 /\ e.text # composer'.text /\ e.text # composer'.prePolish
                 /\ e.polished # 0 => e.polished # composer'.polishedDraft
        BY <1>1, <2>1, <2>5, <2>6 DEF HoldersApart
      <3>3. \A e, f \in calls' : Coming(e) /\ Coming(f) /\ e # f => e.answer # f.answer
        BY <1>1 DEF HoldersApart
      <3>4. \A e \in calls' : Coming(e) =>
              /\ e.answer # composer'.text /\ e.answer # composer'.prePolish
              /\ e.answer # composer'.polishedDraft
        BY <1>1, <2>1, <2>6 DEF HoldersApart
      <3>5. \A e \in calls' : Coming(e) =>
              /\ \A f \in calls' : Out(f) => f.text # e.answer /\ f.polished # e.answer
              /\ \A i \in DOMAIN thread :
                    thread[i].text # e.answer /\ thread[i].polished # e.answer
        BY <1>1 DEF HoldersApart
      <3> QED BY <1>1, <3>1, <3>2, <3>3, <3>4, <3>5 DEF HoldersApart, Out, Coming
    <2>14. ~OwnDone /\ ~OwnDone'
      BY <1>1, <2>5, <2>7 DEF OwnDone
    <2>15. CopiesInv'
      <3> SUFFICES ASSUME NEW n \in 1..MaxTexts
                   PROVE  /\ Cardinality(Copies(n)) <= 1 + spent.failures
                          /\ MayBeSent(n)' => Cardinality(Copies(n)) <= spent.failures
        BY <1>1 DEF CopiesInv, Copies
      <3>1. CASE n = c.answer
        <4>1. Copies(n) = {}
          BY <2>1, <3>1 DEF Copies, HoldersApart
        <4>2. Cardinality(Copies(n)) = 0
          BY <4>1, FS_EmptySet
        <4> QED BY <4>2 DEF TypeOK
      <3>2. CASE n # c.answer
        <4>1. MayBeSent(n)' => MayBeSent(n)
          BY <1>1, <2>1, <2>6, <2>14, <3>2 DEF MayBeSent, Out
        <4> QED BY <4>1 DEF CopiesInv
      <3> QED BY <3>1, <3>2
    <2>16. DraftsInv'
      <3>1. \A i \in DOMAIN thread : thread[i].polished # c.answer
        BY <2>1 DEF HoldersApart
      <3> QED BY <1>1, <2>6, <3>1 DEF DraftsInv, Out
    <2>17. PageInv'
      BY <1>1, <2>5, PageKept DEF serverVars, pageVars
    <2> QED BY <2>8, <2>9, <2>10, <2>11, <2>12, <2>13, <2>15, <2>16, <2>17
  <1> QED BY <1>2, <1>3

LEMMA FieldChangedKeeps ==
  ASSUME ComposerInductive, NEW c \in calls, FieldChanged(c)
  PROVE  ComposerInductive'
  <1> USE DEF ComposerInductive
  <1>1. /\ c \in Call /\ c.kind \in {"resolve", "pick"} /\ calls' = calls \ {c}
        /\ screen' = IF c.at = "done"
                     THEN [screen EXCEPT !.status = c.status, !.marked = TRUE]
                     ELSE screen
        /\ UNCHANGED <<thread, status, events, composer, read, origin, spent>>
    BY DEF FieldChanged, Settle, serverVars, TypeOK
  <1>2. TextsInv'
    BY <1>1, Dropped
  <1>3. c.status \in Status
    BY <1>1 DEF TextsInv, CallsInv, CallInv
  <1>4. TypeOK'
    BY <1>1, <1>3 DEF TypeOK
  <1>5. screen' = screen \/ (screen'.marked = TRUE /\ screen'.messages = screen.messages)
    BY <1>1 DEF TypeOK
  <1>6. PageInv'
    BY <1>1, <1>5 DEF PageInv, Shown
  <1> QED BY <1>2, <1>4, <1>6

-----------------------------------------------------------------------------
(* The cached ticket.                                                      *)

LEMMA ReadFields ==
  /\ NoRead.at = "none" /\ NoRead.got \in Ticket
  /\ IsInjective(NoRead.got.messages)
  /\ [NoRead EXCEPT !.at = "asked"].at = "asked"
  /\ [NoRead EXCEPT !.at = "asked"].got = NoRead.got
  /\ NoRead \in [at : {"none", "asked", "read"}, got : Ticket]
  /\ [NoRead EXCEPT !.at = "asked"] \in [at : {"none", "asked", "read"}, got : Ticket]
  <1>1. NoRead.at = "none" /\ NoRead.got = [messages |-> <<>>, status |-> "Open"]
    BY DEF NoRead
  <1>2. <<>> \in Seq(Nat)
    OBVIOUS
  <1>3. NoRead.got \in Ticket
    BY <1>1, <1>2 DEF Ticket, Status
  <1>4. IsInjective(NoRead.got.messages)
    BY <1>1 DEF IsInjective
  <1>5. NoRead \in [at : {"none", "asked", "read"}, got : Ticket]
    BY <1>1, <1>3 DEF NoRead
  <1>6. /\ [NoRead EXCEPT !.at = "asked"].at = "asked"
        /\ [NoRead EXCEPT !.at = "asked"].got = NoRead.got
        /\ [NoRead EXCEPT !.at = "asked"] \in [at : {"none", "asked", "read"}, got : Ticket]
    BY <1>5
  <1> QED BY <1>1, <1>3, <1>4, <1>5, <1>6

LEMMA ShownFields ==
  ASSUME TypeOK
  PROVE  Shown \in Ticket /\ IsInjective(Shown.messages)
  <1>1. [i \in DOMAIN thread |-> i] \in Seq(Nat)
    <2>1. Len(thread) \in Nat /\ DOMAIN thread = 1..Len(thread)
      BY Rows
    <2>2. [i \in 1..Len(thread) |-> i] \in Seq(Nat)
      BY <2>1, IsASeq
    <2> QED BY <2>1, <2>2
  <1>2. Shown \in Ticket
    BY <1>1 DEF Shown, Ticket, TypeOK
  <1>3. IsInjective(Shown.messages)
    BY DEF Shown, IsInjective
  <1> QED BY <1>2, <1>3

LEMMA HearEventKeeps ==
  ASSUME ComposerInductive, HearEvent
  PROVE  ComposerInductive'
  <1> USE DEF ComposerInductive
  <1>1. /\ events > 0 /\ events' = events - 1
        /\ screen' = [screen EXCEPT !.marked = TRUE]
        /\ IF composer.mounted THEN read' = [NoRead EXCEPT !.at = "asked"]
                               ELSE UNCHANGED read
        /\ UNCHANGED <<thread, status, composer, calls, origin, spent>>
    BY DEF HearEvent, Ask
  <1>2. TextsInv'
    BY <1>1, PageOnly
  <1>3. screen'.marked = TRUE /\ screen'.messages = screen.messages
    BY <1>1 DEF TypeOK
  <1>4. TypeOK'
    <2>1. events' \in Nat
      BY <1>1 DEF TypeOK
    <2>2. screen' \in [messages : Seq(Nat), status : Status, marked : BOOLEAN]
      BY <1>1 DEF TypeOK
    <2>3. read' \in [at : {"none", "asked", "read"}, got : Ticket]
      BY <1>1, ReadFields DEF TypeOK
    <2> QED BY <1>1, <2>1, <2>2, <2>3 DEF TypeOK
  <1>5. PageInv'
    BY <1>1, <1>3, ReadFields DEF PageInv
  <1> QED BY <1>2, <1>4, <1>5

LEMMA ServerReadsKeeps ==
  ASSUME ComposerInductive, ServerReads
  PROVE  ComposerInductive'
  <1> USE DEF ComposerInductive
  <1>1. /\ read.at = "asked" /\ read' = [at |-> "read", got |-> Shown]
        /\ UNCHANGED <<thread, status, events, composer, calls, screen, origin, spent>>
    BY DEF ServerReads, serverVars
  <1>2. TextsInv'
    BY <1>1, PageOnly
  <1>3. TypeOK'
    BY <1>1, ShownFields DEF TypeOK
  <1>4. Shown' = Shown
    BY <1>1 DEF Shown
  <1>5. PageInv'
    BY <1>1, <1>4, ShownFields DEF PageInv
  <1> QED BY <1>2, <1>3, <1>5

LEMMA LandKeeps ==
  ASSUME ComposerInductive, Land
  PROVE  ComposerInductive'
  <1> USE DEF ComposerInductive
  <1>1. /\ read.at = "read" /\ read' = NoRead
        /\ screen' = [messages |-> read.got.messages, status |-> read.got.status,
                      marked |-> FALSE]
        /\ UNCHANGED <<thread, status, events, composer, calls, origin, spent>>
    BY DEF Land, serverVars
  <1>2. TextsInv'
    BY <1>1, PageOnly
  <1>3. /\ read.got \in Ticket /\ read.got.messages \in Seq(Nat)
        /\ read.got.status \in Status
    BY DEF TypeOK, Ticket
  <1>4. TypeOK'
    BY <1>1, <1>3, ReadFields DEF TypeOK
  <1>5. Shown' = Shown
    BY <1>1 DEF Shown
  <1>6. [messages |-> read.got.messages, status |-> read.got.status] = read.got
    BY <1>3 DEF Ticket
  <1>7. PageInv'
    BY <1>1, <1>5, <1>6, ReadFields DEF PageInv
  <1> QED BY <1>2, <1>4, <1>7

LEMMA FocusKeeps ==
  ASSUME ComposerInductive, Focus
  PROVE  ComposerInductive'
  <1> USE DEF ComposerInductive
  <1>1. /\ composer.mounted /\ screen.marked
        /\ read' = [NoRead EXCEPT !.at = "asked"]
        /\ UNCHANGED <<thread, status, events, composer, calls, screen, origin, spent>>
    BY DEF Focus, Ask, serverVars
  <1>2. TextsInv'
    BY <1>1, PageOnly
  <1>3. TypeOK'
    BY <1>1, ReadFields DEF TypeOK
  <1>4. Shown' = Shown
    BY <1>1 DEF Shown
  <1>5. PageInv'
    BY <1>1, <1>4, ReadFields DEF PageInv
  <1> QED BY <1>2, <1>3, <1>5

LEMMA LeaveKeeps ==
  ASSUME ComposerInductive, Leave
  PROVE  ComposerInductive'
  <1> USE DEF ComposerInductive, TextsInv
  <1>1. /\ Spend("leaves", MaxLeaves)
        /\ composer' = [EMPTY_REPLY(composer.mount + 1) EXCEPT !.mounted = FALSE]
        /\ read' = NoRead
        /\ UNCHANGED <<thread, status, events, calls, screen, origin>>
    BY DEF Leave, serverVars
  <1>2. /\ composer' \in Box /\ composer'.mounted = FALSE
        /\ composer'.mount = composer.mount + 1
        /\ composer'.text = 0 /\ composer'.prePolish = 0
        /\ composer'.polishedDraft = 0 /\ composer'.resolveOnSend = FALSE
    <2>1. composer' = [mounted |-> FALSE, mount |-> composer.mount + 1, text |-> 0,
                       long |-> FALSE, prePolish |-> 0, polishedDraft |-> 0,
                       resolveOnSend |-> FALSE]
      BY <1>1 DEF EMPTY_REPLY
    <2>2. composer' \in Box
      BY <2>1, BoxFields, ComposerAssumption DEF Box, Text
    <2> QED BY <2>1, <2>2
  <1>3. /\ spent' \in Budget /\ spent'.failures = spent.failures
        /\ spent'.refused = spent.refused
    BY <1>1, SpendLeave
  <1>4. TypeOK'
    BY <1>1, <1>2, <1>3, ReadFields DEF TypeOK, Budget
  <1>5. \A c \in calls : c.mount # composer'.mount /\ c.mount <= composer'.mount
    BY <1>2, BoxFields, CallFields DEF LocksInv, TypeOK
  <1>6. LocksInv'
    BY <1>1, <1>5 DEF LocksInv, OneCallEach
  <1>7. BoxInv' /\ RowsInv'
    BY <1>1, <1>2, Origins DEF BoxInv, RowsInv
  <1>8. CallsInv'
    BY <1>1, <1>5 DEF CallsInv, CallInv, Coming
  <1>9. IntentInv'
    BY <1>1, <1>2, <1>3 DEF IntentInv
  <1>10. HoldersApart'
    <2>1. \A e \in calls : /\ Out(e) => e.text # 0
                           /\ Coming(e) => e.answer # 0
      BY Origins DEF CallsInv, CallInv, Out
    <2> QED BY <1>1, <1>2, <2>1 DEF HoldersApart, Out, Coming
  <1>11. CopiesInv'
    <2>1. \A n \in 1..MaxTexts : MayBeSent(n)' => MayBeSent(n)
      BY <1>1, <1>2, ComposerAssumption DEF MayBeSent, Out
    <2> QED BY <1>1, <1>3, <2>1 DEF CopiesInv, Copies
  <1>12. DraftsInv'
    BY <1>1, <1>2, <1>3 DEF DraftsInv, Out
  <1>13. Shown' = Shown
    BY <1>1 DEF Shown
  <1>14. PageInv'
    BY <1>1, <1>13, ReadFields DEF PageInv
  <1> QED BY <1>4, <1>6, <1>7, <1>8, <1>9, <1>10, <1>11, <1>12, <1>14

LEMMA ReturnKeeps ==
  ASSUME ComposerInductive, Return
  PROVE  ComposerInductive'
  <1> USE DEF ComposerInductive, TextsInv
  <1>1. /\ ~composer.mounted /\ composer' = [composer EXCEPT !.mounted = TRUE]
        /\ IF screen.marked THEN read' = [NoRead EXCEPT !.at = "asked"]
                            ELSE UNCHANGED read
        /\ UNCHANGED <<thread, status, events, calls, screen, origin, spent>>
    BY DEF Return, Ask, serverVars
  <1>2. /\ composer' \in Box /\ composer'.mounted = TRUE
        /\ composer'.mount = composer.mount
        /\ composer'.text = composer.text /\ composer'.prePolish = composer.prePolish
        /\ composer'.polishedDraft = composer.polishedDraft
        /\ composer'.resolveOnSend = composer.resolveOnSend
    BY <1>1, BoxFields DEF Box
  <1>3. TypeOK'
    BY <1>1, <1>2, ReadFields DEF TypeOK
  <1>4. LocksInv' /\ BoxInv' /\ RowsInv' /\ CallsInv' /\ IntentInv'
    BY <1>1, <1>2 DEF LocksInv, OneCallEach, BoxInv, RowsInv, CallsInv, CallInv,
                      Coming, IntentInv
  <1>5. HoldersApart'
    BY <1>1, <1>2 DEF HoldersApart, Out, Coming
  <1>6. OwnDone' <=> OwnDone
    BY <1>1, <1>2 DEF OwnDone
  <1>7. CopiesInv' /\ DraftsInv'
    BY <1>1, <1>2, <1>6 DEF CopiesInv, Copies, MayBeSent, DraftsInv, Out
  <1>8. Shown' = Shown
    BY <1>1 DEF Shown
  <1>9. PageInv'
    BY <1>1, <1>2, <1>8, ReadFields DEF PageInv
  <1> QED BY <1>3, <1>4, <1>5, <1>7, <1>9

-----------------------------------------------------------------------------
(* The invariant, and what follows from it.                                *)

LEMMA InitSound ==
  ASSUME Init
  PROVE  ComposerInductive
  <1>1. PICK row : row = [by |-> "customer", text |-> 0, polished |-> 0]
    OBVIOUS
  <1>2. row \in Message /\ row.text = 0 /\ row.polished = 0
    BY <1>1, ComposerAssumption DEF Message, Text
  <1>3. /\ thread = <<row>> /\ status = "Open" /\ events = 0 /\ calls = {}
        /\ composer = EMPTY_REPLY(1) /\ read = NoRead /\ origin = <<>>
        /\ screen = [messages |-> <<1>>, status |-> "Open", marked |-> FALSE]
        /\ spent = [calls |-> 0, failures |-> 0, refused |-> 0, others |-> 0, leaves |-> 0]
    BY <1>1 DEF Init
  <1>4. /\ composer \in Box /\ composer.mounted = TRUE /\ composer.mount = 1
        /\ composer.text = 0 /\ composer.prePolish = 0
        /\ composer.polishedDraft = 0 /\ composer.resolveOnSend = FALSE
    BY <1>3, EmptyBox
  <1>5. /\ thread \in Seq(Message) /\ DOMAIN thread = {1} /\ thread[1] = row
    BY <1>2, <1>3
  <1>6. origin \in Seq(Text) /\ Len(origin) = 0 /\ DOMAIN origin = {}
    BY <1>3
  <1>7. TypeOK
    <2>1. screen \in [messages : Seq(Nat), status : Status, marked : BOOLEAN]
      BY <1>3 DEF Status
    <2>2. spent \in [calls : Nat, failures : Nat, refused : Nat, others : Nat, leaves : Nat]
      BY <1>3
    <2>3. status \in Status /\ events \in Nat /\ calls \subseteq Call
      BY <1>3 DEF Status
    <2> QED BY <1>3, <1>4, <1>5, <1>6, <2>1, <2>2, <2>3, ReadFields, ComposerAssumption
            DEF TypeOK
  <1>8. LocksInv /\ CallsInv /\ HoldersApart /\ IntentInv
    BY <1>3, <1>4 DEF LocksInv, OneCallEach, CallsInv, HoldersApart, IntentInv
  <1>9. BoxInv
    BY <1>4, <1>6 DEF BoxInv
  <1>10. RowsInv
    BY <1>2, <1>5, <1>6 DEF RowsInv
  <1>11. CopiesInv
    <2> SUFFICES ASSUME NEW n \in 1..MaxTexts
                 PROVE  /\ Cardinality(Copies(n)) <= 1 + spent.failures
                        /\ Cardinality(Copies(n)) <= spent.failures
      BY DEF CopiesInv
    <2>1. n # 0
      BY ComposerAssumption
    <2>2. Copies(n) = {}
      BY <1>2, <1>5, <2>1 DEF Copies
    <2>3. Cardinality(Copies(n)) = 0 /\ spent.failures = 0
      BY <1>3, <2>2, FS_EmptySet
    <2> QED BY <2>3
  <1>12. DraftsInv
    BY <1>2, <1>5 DEF DraftsInv
  <1>13. PageInv
    <2>1. screen.messages = <<1>> /\ screen.status = "Open"
      BY <1>3
    <2>2. [i \in DOMAIN thread |-> i] = <<1>>
      BY <1>5
    <2>3. [messages |-> screen.messages, status |-> screen.status] = Shown
      BY <1>3, <2>1, <2>2 DEF Shown
    <2>4. IsInjective(screen.messages)
      BY <2>1 DEF IsInjective
    <2> QED BY <1>3, <1>4, <2>3, <2>4, ReadFields DEF PageInv
  <1> QED BY <1>7, <1>8, <1>9, <1>10, <1>11, <1>12, <1>13 DEF ComposerInductive, TextsInv

LEMMA StepKeeps ==
  ASSUME ComposerInductive, [Next]_vars
  PROVE  ComposerInductive'
  <1>1. CASE Press
    BY <1>1, TypesKeeps, runPolishKeeps, undoPolishKeeps, PressSendKeeps,
       sendAndResolveKeeps, PickStatusKeeps DEF Press
  <1>2. CASE \E c \in calls : CallStep(c)
    BY <1>2, TakeReplyKeeps, TakeDraftKeeps, TakeStatusKeeps, FailKeeps, SentKeeps,
       NotSentKeeps, PolishedKeeps, FieldChangedKeeps DEF CallStep
  <1>3. CASE PageStep
    BY <1>3, HearEventKeeps, ServerReadsKeeps, LandKeeps, FocusKeeps, LeaveKeeps,
       ReturnKeeps DEF PageStep
  <1>4. CASE OthersWrite
    BY <1>4, OthersWriteKeeps
  <1>5. CASE UNCHANGED vars
    <2>1. TextsInv'
      BY <1>5, PageOnly DEF ComposerInductive, vars
    <2>2. TypeOK' /\ PageInv'
      BY <1>5 DEF ComposerInductive, TypeOK, PageInv, Shown, IsInjective, vars
    <2> QED BY <2>1, <2>2 DEF ComposerInductive
  <1> QED BY <1>1, <1>2, <1>3, <1>4, <1>5 DEF Next

LEMMA AlwaysInductive == Spec => []ComposerInductive
  <1>1. Init => ComposerInductive
    BY InitSound
  <1>2. ComposerInductive /\ [Next]_vars => ComposerInductive'
    BY StepKeeps
  <1> QED BY <1>1, <1>2, PTL DEF Spec

(* What the reply box keeps whatever order answers, events and reads come  *)
(* in: one request a control, a copy of a text on the thread for each time *)
(* the agent was told it failed and one more, a polish that is compared    *)
(* with the one reply it was sent from, and no bubble drawn twice.         *)
THEOREM ComposerIsSound == Spec => []ComposerInvariant
  <1>1. ComposerInductive => ComposerInvariant
    <2> SUFFICES ASSUME ComposerInductive PROVE ComposerInvariant
      OBVIOUS
    <2> USE DEF ComposerInductive, TextsInv
    <2>1. TypeOK /\ OneCallEach /\ NoBubbleTwice
      BY DEF LocksInv, PageInv, NoBubbleTwice
    <2>2. CopiesNeedFailure
      BY DEF CopiesInv, Copies, CopiesNeedFailure
    <2>3. PolishIsTraceable
      <3>1. \A i \in DOMAIN thread : thread[i].polished <= thread[i].text
        BY DEF RowsInv
      <3>2. \A i, j \in DOMAIN thread :
              /\ i # j
              /\ thread[i].polished # 0
              /\ thread[i].polished = thread[j].polished
              => spent.failures > 0
        <4>1. spent.failures \in Nat
          BY DEF TypeOK
        <4> QED BY <4>1 DEF DraftsInv
      <3>3. composer.polishedDraft # 0 =>
              composer.prePolish = origin[composer.polishedDraft]
        BY DEF BoxInv
      <3> QED BY <3>1, <3>2, <3>3 DEF PolishIsTraceable
    <2> QED BY <2>1, <2>2, <2>3 DEF ComposerInvariant
  <1> QED BY <1>1, AlwaysInductive, PTL

(* Only "Send & resolve" resolves: until a draft over the cap was refused, *)
(* every resolve comes from a send that was asked to.                      *)
THEOREM ResolveWasAsked == Spec => []ResolveIsAsked
  <1>1. ComposerInductive => ResolveIsAsked
    <2> SUFFICES ASSUME ComposerInductive, NEW c \in calls, c.kind = "resolve"
                 PROVE  c.asked \/ spent.refused > 0
      BY DEF ResolveIsAsked
    <2>1. spent.refused \in Nat
      BY DEF ComposerInductive, TypeOK
    <2> QED BY <2>1 DEF ComposerInductive, TextsInv, IntentInv
  <1> QED BY <1>1, AlwaysInductive, PTL

(* A ticket that carries no mark, with nothing on its way to the page, is  *)
(* shown as it is.                                                         *)
THEOREM ScreenIsTrue == Spec => []UnmarkedScreenIsTrue
  <1>1. ComposerInductive => UnmarkedScreenIsTrue
    BY DEF ComposerInductive, PageInv, UnmarkedScreenIsTrue
  <1> QED BY <1>1, AlwaysInductive, PTL

(* The box gives a draft up only for another text, for the thread that has *)
(* it, or when the page is left.                                           *)
Gives ==
    composer'.text # composer.text /\ composer.text # 0 =>
       \/ Len(origin') > Len(origin)
       \/ ~composer'.mounted
       \/ composer'.prePolish = composer.text
       \/ composer.prePolish # 0 /\ composer'.text = composer.prePolish
       \/ \E i \in DOMAIN thread : thread[i].text = composer.text

LEMMA DraftGivenUp ==
  ASSUME ComposerInductive, Next
  PROVE  Gives
  <1> USE DEF ComposerInductive, TextsInv
  <1>1. CASE Types
    <2>1. origin' = Append(origin, 0) /\ Len(origin) < MaxTexts
      BY <1>1 DEF Types
    <2>2. 0 \in Text
      BY ComposerAssumption DEF Text
    <2>3. Len(origin') = Len(origin) + 1 /\ Len(origin) \in Nat
      BY <2>1, <2>2, OriginGrows
    <2> QED BY <2>3 DEF Gives
  <1>2. CASE undoPolish
    <2>1. /\ composer.prePolish # 0
          /\ composer' = [composer EXCEPT !.text = composer.prePolish, !.long = FALSE,
                                          !.prePolish = 0, !.polishedDraft = 0]
      BY <1>2 DEF undoPolish
    <2>2. composer'.text = composer.prePolish
      BY <2>1, BoxFields DEF Box
    <2> QED BY <2>1, <2>2 DEF Gives
  <1>3. CASE sendAndResolve
    <2>1. composer' = [composer EXCEPT !.resolveOnSend = TRUE]
      BY <1>3 DEF sendAndResolve
    <2>2. composer'.text = composer.text
      BY <2>1, BoxFields DEF Box
    <2> QED BY <2>2 DEF Gives
  <1>4. CASE \E c \in calls : Sent(c)
    <2>1. PICK c \in calls : Sent(c)
      BY <1>4
    <2>2. /\ c.kind = "send" /\ c.at = "done"
          /\ composer' = IF Own(c) THEN EMPTY_REPLY(c.mount) ELSE composer
      BY <2>1 DEF Sent
    <2>3. CASE Own(c)
      <3>1. c.text = composer.text
        BY <2>2, <2>3 DEF CallsInv, CallInv, Own
      <3>2. c.answer \in DOMAIN thread /\ thread[c.answer].text = c.text
        BY <2>2 DEF CallsInv, CallInv
      <3> QED BY <3>1, <3>2 DEF Gives
    <2>4. CASE ~Own(c)
      BY <2>2, <2>4 DEF Gives
    <2> QED BY <2>3, <2>4
  <1>5. CASE \E c \in calls : NotSent(c)
    <2>1. composer' = composer \/ composer' = [composer EXCEPT !.resolveOnSend = FALSE]
      BY <1>5 DEF NotSent
    <2>2. composer'.text = composer.text
      BY <2>1, BoxFields DEF Box
    <2> QED BY <2>2 DEF Gives
  <1>6. CASE \E c \in calls : Polished(c)
    <2>1. PICK c \in calls : Polished(c)
      BY <1>6
    <2>2. /\ c.kind = "polish"
          /\ composer' = IF c.at = "done" /\ Own(c)
                         THEN [composer EXCEPT !.text = c.answer, !.long = FALSE,
                                               !.prePolish = c.text,
                                               !.polishedDraft = c.answer]
                         ELSE composer
      BY <2>1 DEF Polished
    <2>3. CASE c.at = "done" /\ Own(c)
      <3>1. c.text = composer.text
        BY <2>2, <2>3 DEF CallsInv, CallInv, Own
      <3>2. composer'.prePolish = c.text
        BY <2>2, <2>3, BoxFields DEF Box
      <3> QED BY <3>1, <3>2 DEF Gives
    <2>4. CASE ~(c.at = "done" /\ Own(c))
      BY <2>2, <2>4 DEF Gives
    <2> QED BY <2>3, <2>4
  <1>7. CASE Leave
    <2>1. composer' = [EMPTY_REPLY(composer.mount + 1) EXCEPT !.mounted = FALSE]
      BY <1>7 DEF Leave
    <2>2. ~composer'.mounted
      BY <2>1 DEF EMPTY_REPLY
    <2> QED BY <2>2 DEF Gives
  <1>8. CASE Return
    <2>1. composer' = [composer EXCEPT !.mounted = TRUE]
      BY <1>8 DEF Return
    <2>2. composer'.text = composer.text
      BY <2>1, BoxFields DEF Box
    <2> QED BY <2>2 DEF Gives
  <1>9. CASE UNCHANGED composer
    BY <1>9 DEF Gives
  <1>10. Press => UNCHANGED composer \/ Types \/ undoPolish \/ sendAndResolve
    BY DEF Press, runPolish, PressSend, PickStatus
  <1>11. \A c \in calls : CallStep(c) =>
           UNCHANGED composer \/ Sent(c) \/ NotSent(c) \/ Polished(c)
    BY DEF CallStep, TakeReply, TakeDraft, TakeStatus, Fail, FieldChanged
  <1>12. PageStep => UNCHANGED composer \/ Leave \/ Return
    BY DEF PageStep, HearEvent, ServerReads, Land, Focus
  <1>13. OthersWrite => UNCHANGED composer
    BY DEF OthersWrite
  <1> QED BY <1>1, <1>2, <1>3, <1>4, <1>5, <1>6, <1>7, <1>8, <1>9, <1>10, <1>11, <1>12,
             <1>13 DEF Next

(* A draft is the only copy of what was typed, and no answer, however late,*)
(* takes it out of the box before the thread has it.                       *)
THEOREM DraftStays == Spec => DraftIsKept
  <1>1. ComposerInductive /\ [Next]_vars => [Gives]_vars
    BY DraftGivenUp
  <1>2. [][Gives]_vars => DraftIsKept
    BY PTL DEF DraftIsKept, Gives
  <1> QED BY <1>1, <1>2, AlwaysInductive, PTL DEF Spec

-----------------------------------------------------------------------------
(* The push channel: the inductive invariant, tab by tab.                  *)

(* A tab by itself: it never holds more than the truth, asks until it has  *)
(* a first answer, is marked whenever it asks again, and has a stream only *)
(* if it ever had one.                                                     *)
Tidy(c) ==
    /\ c \in Tab /\ Len(c.wire) <= MaxFrames
    /\ c.data <= truth[c.watch] /\ c.read <= truth[c.watch]
    /\ c.read # 0 => c.asking
    /\ c.data = 0 => c.asking
    /\ c.asking /\ c.data # 0 => c.stale \/ c.gap
    /\ c.stream # "closed" \/ c.at # "none" => c.hasConnected

About(e, q) == q \in Refetched[e] \cup Marked[e]

Behind(c) == Holds(c) < truth[c.watch]

(* What the tab has that will bring it the truth, or excuses it: ...       *)
Reached(c) ==
    \/ c.gap
    \/ c.stale /\ ~c.asking
    \/ c.stream # "open" /\ c.hasConnected /\ c.watch \in Resynced
    \/ \E i \in DOMAIN c.wire : About(c.wire[i], c.watch)
    \/ \E e \in c.pending : About(e, c.watch)

(* ... or a route that has committed and is about to say so.               *)
AboutToHear(q) ==
    \E w \in Workers : work[w].step = "publish" /\ Concerns(work[w].site, q)

GoodTab(c) == Tidy(c) /\ (Behind(c) => Reached(c) \/ AboutToHear(c.watch))

LiveInv ==
    /\ truth \in [Queries -> Nat \ {0}]
    /\ work \in [Workers -> Work]
    /\ \A w \in Workers : work[w].step # "idle" => work[w].site \in DOMAIN Sites
                                                   /\ work[w].at \in Procs
    /\ proc \in [Procs -> {"next", "up", "draining"}]
    /\ breaks \in 0..MaxBreaks
    /\ tab \in [Tabs -> Tab]
    /\ \A t \in Tabs : GoodTab(tab[t])

(* What an event concerns: whoever it concerns hears it, and the query no  *)
(* reopened stream reads again is never merely marked.                     *)
LEMMA ConcernedHear ==
    ASSUME NEW q \in Queries, NEW e \in TICKET_EVENT, About(e, q)
    PROVE  Hears(q, e)
  BY DEF Queries, TICKET_EVENT, About, Hears, AdminQueries, Refetched, Marked, TicketQueries

LEMMA LostIsRefetched ==
    ASSUME NEW q \in Queries, NEW e \in TICKET_EVENT, About(e, q), q \notin Resynced
    PROVE  q \in Refetched[e]
  BY DEF Queries, TICKET_EVENT, About, Refetched, Marked, TicketQueries, Resynced

LEMMA SitesTell == ASSUME NEW s \in DOMAIN Sites PROVE Sites[s].tells \in SUBSET TICKET_EVENT
  BY DEF Sites, TICKET_EVENT

LEMMA EventsFinite == IsFiniteSet(TICKET_EVENT)
  <1>1. TICKET_EVENT = ((((({} \cup {"created"}) \cup {"updated"}) \cup {"assigned"})
                          \cup {"message"}) \cup {"pipeline"}) \cup {"eval"}
    BY DEF TICKET_EVENT
  <1>2. IsFiniteSet({})
    BY FS_EmptySet
  <1>3. QED
    BY <1>1, <1>2, FS_AddElement, Zenon

(* The events of one commit go out in some order, each of them once.       *)
LEMMA SetToSeqLists ==
    ASSUME NEW S, IsFiniteSet(S)
    PROVE  /\ SetToSeq(S) \in Seq(S)
           /\ \A e \in S : \E i \in 1..Len(SetToSeq(S)) : SetToSeq(S)[i] = e
  <1> DEFINE n == Cardinality(S)
             f == SetToSeq(S)
  <1>1. n \in Nat /\ ExistsBijection(1..n, S)
    BY FS_CardinalityType
  <1>2. PICK g : g \in Bijection(1..n, S)
    BY <1>1 DEF ExistsBijection
  <1>3. g \in [1..n -> S] /\ IsInjective(g)
    BY <1>2 DEF Bijection, Injection
  <1>4. f \in [1..n -> S] /\ IsInjective(f)
    BY <1>3 DEF SetToSeq
  <1>5. f \in Injection(1..n, S)
    BY <1>4 DEF Injection
  <1>6. IsFiniteSet(1..n) /\ Cardinality(1..n) = n
    BY <1>1, FS_Interval
  <1>7. f \in Surjection(1..n, S)
    BY <1>5, <1>6, FS_Injection
  <1>8. \A e \in S : \E i \in 1..n : f[i] = e
    BY <1>7 DEF Surjection
  <1>9. f \in Seq(S) /\ Len(f) = n
    BY <1>1, <1>4
  <1>10. QED
    BY <1>8, <1>9

-----------------------------------------------------------------------------
(* What each thing that happens to a tab leaves of it.                     *)

LEMMA SendTidy ==
    ASSUME NEW c, Tidy(c), truth \in [Queries -> Nat \ {0}], c.stream = "open",
           NEW evs \in Seq(TICKET_EVENT)
    PROVE  /\ Tidy(Send(c, evs))
           /\ Send(c, evs).watch = c.watch
           /\ Holds(Send(c, evs)) = Holds(c)
           /\ Behind(c) /\ Reached(c) => Reached(Send(c, evs))
           /\ \A i \in 1..Len(evs) :
                 Behind(c) /\ About(evs[i], c.watch) => Reached(Send(c, evs))
  <1> DEFINE room == MaxFrames - Len(c.wire)
             d == Send(c, evs)
  <1>0. /\ c \in Tab /\ c.wire \in Seq(TICKET_EVENT) /\ c.watch \in Queries
        /\ Len(c.wire) \in Nat /\ Len(c.wire) <= MaxFrames /\ MaxFrames \in Nat
        /\ room \in Nat /\ Len(evs) \in Nat
    BY LiveEventsAssumption DEF Tidy, Tab
  <1>1. CASE Len(evs) <= room
    <2>1. d = [c EXCEPT !.wire = c.wire \o evs]
      BY <1>1 DEF Send
    <2>2. /\ c.wire \o evs \in Seq(TICKET_EVENT)
          /\ Len(c.wire \o evs) <= MaxFrames
      BY <1>0, <1>1
    <2>3. d \in Tab /\ d.wire = c.wire \o evs
      BY <2>1, <2>2, <1>0 DEF Tab
    <2>4. Tidy(d) /\ d.watch = c.watch /\ Holds(d) = Holds(c)
      BY <2>1, <2>2, <2>3, <1>0 DEF Tidy, Holds, Tab
    <2>5. \A i \in DOMAIN c.wire : i \in DOMAIN d.wire /\ d.wire[i] = c.wire[i]
      BY <2>3, <1>0
    <2>6. ASSUME NEW i \in 1..Len(evs)
          PROVE  /\ Len(c.wire) + i \in DOMAIN d.wire
                 /\ d.wire[Len(c.wire) + i] = evs[i]
      BY <2>3, <1>0
    <2>7. Reached(c) => Reached(d)
      BY <2>1, <2>4, <2>5, <1>0 DEF Reached, Tab
    <2>8. \A i \in 1..Len(evs) : About(evs[i], c.watch) => Reached(d)
      BY <2>4, <2>6 DEF Reached
    <2>9. QED
      BY <2>4, <2>7, <2>8
  <1>2. CASE ~(Len(evs) <= room)
    <2> DEFINE sent == SubSeq(evs, 1, room)
               lost == \E i \in room + 1..Len(evs) : c.watch \in Refetched[evs[i]]
    <2>0. /\ sent \in Seq(TICKET_EVENT) /\ Len(sent) = room
          /\ \A i \in 1..room : sent[i] = evs[i]
      <3>1. /\ 1 \in Int /\ room \in Int /\ room <= Len(evs)
            /\ \A i \in 1..room : evs[i] \in TICKET_EVENT
        BY <1>0, <1>2
      <3>2. /\ sent \in Seq(TICKET_EVENT)
            /\ Len(sent) = IF 1 <= room THEN room - 1 + 1 ELSE 0
            /\ \A i \in 1..room - 1 + 1 : sent[i] = evs[1 + i - 1]
        BY <3>1, SubSeqProperties
      <3> HIDE DEF sent, room
      <3>3. QED
        BY <1>0, <3>2
    <2>1. d = [c EXCEPT !.wire = c.wire \o sent, !.stream = "ended",
                        !.gap = c.gap \/ (c.watch \notin Resynced /\ lost /\ Behind(c))]
      BY <1>2 DEF Send, Behind
    <2> HIDE DEF sent, d
    <2>2. /\ c.wire \o sent \in Seq(TICKET_EVENT)
          /\ Len(c.wire \o sent) <= MaxFrames
      <3>1. c.wire \o sent \in Seq(TICKET_EVENT) /\ Len(c.wire \o sent) = Len(c.wire) + Len(sent)
        BY <1>0, <2>0
      <3>2. QED
        BY <3>1, <1>0, <2>0
    <2>3. d \in Tab /\ d.wire = c.wire \o sent
      BY <2>1, <2>2, <1>0 DEF Tab
    <2>4. Tidy(d) /\ d.watch = c.watch /\ Holds(d) = Holds(c)
      BY <2>1, <2>2, <2>3, <1>0 DEF Tidy, Holds, Tab
    <2>5. \A i \in DOMAIN c.wire : i \in DOMAIN d.wire /\ d.wire[i] = c.wire[i]
      BY <2>3, <1>0, <2>0
    <2>6. ASSUME NEW i \in 1..room
          PROVE  /\ Len(c.wire) + i \in DOMAIN d.wire
                 /\ d.wire[Len(c.wire) + i] = evs[i]
      BY <2>3, <1>0, <2>0
    <2>7. Reached(c) => Reached(d)
      BY <2>1, <2>4, <2>5, <1>0 DEF Reached, Tab
    <2>8. ASSUME NEW i \in 1..Len(evs), About(evs[i], c.watch), Behind(c)
          PROVE  Reached(d)
      <3>1. CASE i \in 1..room
        BY <3>1, <2>4, <2>6, <2>8 DEF Reached
      <3>2. CASE i \in room + 1..Len(evs) /\ c.watch \in Resynced
        <4>1. d.stream = "ended" /\ d.hasConnected
          BY <2>1, <1>0 DEF Tidy, Tab
        <4>2. QED
          BY <4>1, <3>2, <2>4 DEF Reached
      <3>3. CASE i \in room + 1..Len(evs) /\ c.watch \notin Resynced
        <4>1. lost
          BY <3>3, <2>8, <1>0, LostIsRefetched
        <4>2. d.gap
          BY <4>1, <3>3, <2>1, <2>8, <1>0 DEF Tab
        <4>3. QED
          BY <4>2 DEF Reached
      <3>4. QED
        BY <3>1, <3>2, <3>3, <1>0
    <2>9. QED
      BY <2>4, <2>7, <2>8 DEF d
  <1>3. QED
    BY <1>1, <1>2

(* A tab whose stream is gone: what was on it is read again when it comes  *)
(* back, or is the gap.                                                    *)
LEMMA ClosedGood ==
    ASSUME NEW c, Tidy(c), truth \in [Queries -> Nat \ {0}], c.hasConnected
    PROVE  /\ Tidy(Closed(c))
           /\ Closed(c).watch = c.watch
           /\ Holds(Closed(c)) = Holds(c)
           /\ Behind(c) /\ Reached(c) => Reached(Closed(c))
  <1> DEFINE d == Closed(c)
             lost == \E i \in DOMAIN c.wire : c.watch \in Refetched[c.wire[i]]
             g == c.gap \/ (c.watch \notin Resynced /\ lost /\ Behind(c))
             empty == <<>>
  <1>1. d = [c EXCEPT !.stream = "closed", !.at = "none", !.wire = empty, !.gap = g]
    BY DEF Closed, Behind
  <1>2. c \in Tab /\ c.wire \in Seq(TICKET_EVENT) /\ c.watch \in Queries /\ c.hasConnected
    BY DEF Tidy, Tab
  <1>3. g \in BOOLEAN /\ empty \in Seq(TICKET_EVENT) /\ Len(empty) = 0
    OBVIOUS
  <1> HIDE DEF d, g, lost, empty
  <1>4. d \in Tab /\ d.wire = empty
    BY <1>1, <1>2, <1>3 DEF Tab
  <1>5. /\ d.watch = c.watch /\ d.data = c.data /\ d.read = c.read
        /\ d.asking = c.asking /\ d.stale = c.stale /\ d.stream = "closed"
        /\ d.hasConnected = c.hasConnected /\ d.at = "none"
        /\ d.pending = c.pending /\ d.gap = g
    BY <1>1, <1>2 DEF Tab
  <1>6. c.gap => g
    BY DEF g
  <1>7. Tidy(d) /\ Holds(d) = Holds(c)
    <2>1. Holds(d) = Holds(c)
      BY <1>5 DEF Holds
    <2>2. Len(d.wire) <= MaxFrames
      BY <1>3, <1>4, LiveEventsAssumption
    <2>3. QED
      BY <1>2, <1>4, <1>5, <1>6, <2>1, <2>2 DEF Tidy
  <1>8. ASSUME Behind(c), Reached(c) PROVE Reached(d)
    <2>1. CASE c.watch \in Resynced
      BY <2>1, <1>2, <1>5 DEF Reached
    <2>2. CASE c.watch \notin Resynced /\ \E i \in DOMAIN c.wire : About(c.wire[i], c.watch)
      <3>1. lost
        BY <2>2, <1>2, LostIsRefetched DEF lost
      <3>2. g
        BY <3>1, <2>2, <1>8 DEF g
      <3>3. QED
        BY <3>2, <1>5 DEF Reached
    <2>3. CASE c.watch \notin Resynced /\ ~\E i \in DOMAIN c.wire : About(c.wire[i], c.watch)
      BY <2>3, <1>5, <1>6, <1>8 DEF Reached
    <2>4. QED
      BY <2>1, <2>2, <2>3
  <1>9. QED
    BY <1>5, <1>7, <1>8 DEF d

(* A query that is read again will have the truth.                         *)
LEMMA InvalidatedGood ==
    ASSUME NEW c, Tidy(c), truth \in [Queries -> Nat \ {0}]
    PROVE  /\ Tidy(Invalidated(c))
           /\ Behind(Invalidated(c)) => Reached(Invalidated(c))
  <1>1. c \in Tab /\ c.watch \in Queries /\ truth[c.watch] \in Nat \ {0}
    BY DEF Tidy, Tab
  <1>2. CASE c.asking /\ c.data = 0
    <2> DEFINE d == [c EXCEPT !.gap = c.gap \/ c.read \notin {0, truth[c.watch]}]
    <2>1. Invalidated(c) = d
      BY <1>2 DEF Invalidated
    <2>2. d \in Tab
      BY <1>1 DEF Tab
    <2>3. /\ d.watch = c.watch /\ d.data = c.data /\ d.read = c.read /\ d.wire = c.wire
          /\ d.asking = c.asking /\ d.stale = c.stale /\ d.stream = c.stream
          /\ d.hasConnected = c.hasConnected /\ d.at = c.at
          /\ d.gap <=> (c.gap \/ c.read \notin {0, truth[c.watch]})
      BY <1>1 DEF Tab
    <2> HIDE DEF d
    <2>4. Tidy(d)
      BY <2>2, <2>3, <1>1 DEF Tidy
    <2>5. Behind(d) => Reached(d)
      BY <2>3, <1>1, <1>2 DEF Behind, Holds, Reached
    <2>6. QED
      BY <2>1, <2>4, <2>5
  <1>3. CASE ~(c.asking /\ c.data = 0)
    <2> DEFINE d == [c EXCEPT !.stale = TRUE, !.asking = TRUE, !.read = 0]
    <2>1. Invalidated(c) = d
      BY <1>3 DEF Invalidated
    <2>2. d \in Tab
      BY <1>1 DEF Tab
    <2>3. QED
      BY <1>1, <1>3, <2>1, <2>2 DEF Tidy, Behind, Holds, Reached, Tab
  <1>4. QED
    BY <1>2, <1>3

LEMMA MarkedOnlyGood ==
    ASSUME NEW c, Tidy(c), truth \in [Queries -> Nat \ {0}]
    PROVE  /\ Tidy(MarkedOnly(c))
           /\ Behind(MarkedOnly(c)) => Reached(MarkedOnly(c))
  <1>1. c \in Tab /\ c.watch \in Queries /\ truth[c.watch] \in Nat \ {0}
    BY DEF Tidy, Tab
  <1> DEFINE d == MarkedOnly(c)
  <1>2. d = [c EXCEPT !.stale = TRUE,
                      !.gap = c.gap \/ (c.asking /\ c.read \notin {0, truth[c.watch]})]
    BY DEF MarkedOnly
  <1> HIDE DEF d
  <1>3. d \in Tab
    BY <1>1, <1>2 DEF Tab
  <1>4. QED
    BY <1>1, <1>2, <1>3 DEF d, Tidy, Behind, Holds, Reached, Tab

-----------------------------------------------------------------------------
(* The steps that change one tab and nothing else but the count of breaks. *)

LEMMA SetTabKeeps ==
    ASSUME LiveInv, NEW t \in Tabs, NEW c, GoodTab(c), SetTab(t, c),
           breaks' \in 0..MaxBreaks
    PROVE  LiveInv'
  <1>1. UNCHANGED <<truth, work, proc>> /\ tab' = [tab EXCEPT ![t] = c]
    BY DEF SetTab
  <1>2. tab \in [Tabs -> Tab] /\ c \in Tab
    BY DEF LiveInv, GoodTab, Tidy
  <1>3. tab' \in [Tabs -> Tab]
    BY <1>1, <1>2
  <1>4. ASSUME NEW u \in Tabs PROVE GoodTab(tab'[u])
    BY <1>1, <1>2 DEF LiveInv
  <1>5. ASSUME NEW u \in Tabs PROVE GoodTab(tab[u])'
    BY <1>1, <1>4 DEF GoodTab, Tidy, Behind, Holds, Reached, AboutToHear
  <1>6. QED
    BY <1>1, <1>3, <1>5 DEF LiveInv

LEMMA BreakCounts == LiveInv /\ Break => breaks' \in 0..MaxBreaks
  BY LiveEventsAssumption DEF LiveInv, Break

LEMMA TabOf ==
    ASSUME LiveInv, NEW t \in Tabs
    PROVE  /\ GoodTab(tab[t]) /\ Tidy(tab[t]) /\ tab[t] \in Tab
           /\ tab[t].watch \in Queries /\ truth[tab[t].watch] \in Nat \ {0}
           /\ truth \in [Queries -> Nat \ {0}]
           /\ breaks \in 0..MaxBreaks
  BY DEF LiveInv, GoodTab, Tidy, Tab

LEMMA OpenStep ==
    ASSUME LiveInv, NEW t \in Tabs, NEW p \in Procs, Open(t, p)
    PROVE  LiveInv'
  <1> DEFINE c == [tab[t] EXCEPT !.stream = "open", !.at = p, !.hasConnected = TRUE]
             d == IF tab[t].hasConnected /\ c.watch \in Resynced THEN Invalidated(c) ELSE c
  <1>1. tab[t].stream = "closed" /\ SetTab(t, d) /\ breaks' = breaks
    BY DEF Open
  <1>2. c \in Tab
    BY TabOf DEF Tab
  <1>3. /\ c.watch = tab[t].watch /\ c.data = tab[t].data /\ c.read = tab[t].read
        /\ c.asking = tab[t].asking /\ c.stale = tab[t].stale /\ c.stream = "open"
        /\ c.hasConnected /\ c.pending = tab[t].pending /\ c.gap = tab[t].gap
        /\ c.wire = tab[t].wire
    BY TabOf DEF Tab
  <1> HIDE DEF c
  <1>4. Tidy(c) /\ Holds(c) = Holds(tab[t])
    BY <1>2, <1>3, TabOf DEF Tidy, Holds
  <1>5. GoodTab(d)
    <2>1. CASE tab[t].hasConnected /\ c.watch \in Resynced
      BY <2>1, <1>4, TabOf, InvalidatedGood DEF GoodTab
    <2>2. CASE ~(tab[t].hasConnected /\ c.watch \in Resynced)
      BY <2>2, <1>1, <1>3, <1>4, TabOf DEF GoodTab, Behind, Reached
    <2>3. QED
      BY <2>1, <2>2
  <1>6. QED
    BY <1>1, <1>5, TabOf, SetTabKeeps

LEMMA ReceiveStep ==
    ASSUME LiveInv, NEW t \in Tabs, Receive(t)
    PROVE  LiveInv'
  <1> DEFINE c == tab[t]
             rest == Tail(c.wire)
             heard == c.pending \cup {Head(c.wire)}
             d == [c EXCEPT !.wire = rest, !.pending = heard]
  <1>1. c \in Tab /\ GoodTab(c) /\ Tidy(c)
    BY TabOf
  <1>2. c.wire # <<>> /\ SetTab(t, d) /\ breaks' = breaks
    BY DEF Receive
  <1>3. c.wire \in Seq(TICKET_EVENT) /\ Len(c.wire) <= MaxFrames /\ c.pending \subseteq TICKET_EVENT
    BY TabOf DEF Tab, Tidy
  <1>4. c.wire[1] = Head(c.wire) /\ c.wire[1] \in TICKET_EVENT
    BY <1>2, <1>3
  <1>5. /\ rest \in Seq(TICKET_EVENT) /\ Len(rest) <= MaxFrames
    BY <1>2, <1>3, LiveEventsAssumption
  <1>6. /\ rest \in Seq(TICKET_EVENT) /\ Len(rest) <= MaxFrames
        /\ heard \in SUBSET TICKET_EVENT
        /\ \A i \in DOMAIN c.wire : i = 1 \/ (i - 1 \in DOMAIN rest /\ rest[i - 1] = c.wire[i])
        /\ c.wire[1] \in heard /\ c.pending \subseteq heard
    BY <1>2, <1>3, <1>4, <1>5, SMTT(30)
  <1> HIDE DEF c, rest, heard
  <1>7. d \in Tab
    BY <1>1, <1>6 DEF Tab
  <1>8. /\ d.watch = c.watch /\ d.data = c.data /\ d.read = c.read
        /\ d.asking = c.asking /\ d.stale = c.stale /\ d.stream = c.stream
        /\ d.hasConnected = c.hasConnected /\ d.at = c.at /\ d.gap = c.gap
        /\ d.wire = rest /\ d.pending = heard
    BY <1>1 DEF Tab
  <1> HIDE DEF d
  <1>9. Tidy(d) /\ Holds(d) = Holds(c)
    BY <1>1, <1>6, <1>7, <1>8 DEF Tidy, Holds
  <1>10. Reached(c) => Reached(d)
    <2>1. (\E i \in DOMAIN c.wire : About(c.wire[i], c.watch)) =>
             \/ \E i \in DOMAIN rest : About(rest[i], c.watch)
             \/ \E e \in heard : About(e, c.watch)
      BY <1>6
    <2>2. (\E e \in c.pending : About(e, c.watch)) => \E e \in heard : About(e, c.watch)
      BY <1>6
    <2>3. QED
      BY <2>1, <2>2, <1>8 DEF Reached
  <1>11. GoodTab(d)
    BY <1>1, <1>8, <1>9, <1>10 DEF GoodTab, Behind
  <1>12. QED
    BY <1>2, <1>11, TabOf, SetTabKeeps

(* A stream that only changes from open to ended loses nothing.            *)
LEMMA EndedGood ==
    ASSUME NEW c, GoodTab(c), c.stream = "open"
    PROVE  GoodTab([c EXCEPT !.stream = "ended"])
  <1> DEFINE d == [c EXCEPT !.stream = "ended"]
  <1>1. c \in Tab
    BY DEF GoodTab, Tidy
  <1>2. d \in Tab
    BY <1>1 DEF Tab
  <1>3. /\ d.watch = c.watch /\ d.data = c.data /\ d.read = c.read
        /\ d.asking = c.asking /\ d.stale = c.stale /\ d.stream = "ended"
        /\ d.hasConnected = c.hasConnected /\ d.at = c.at /\ d.gap = c.gap
        /\ d.wire = c.wire /\ d.pending = c.pending
    BY <1>1 DEF Tab
  <1> HIDE DEF d
  <1>4. Tidy(d) /\ Holds(d) = Holds(c)
    BY <1>2, <1>3 DEF GoodTab, Tidy, Holds
  <1>5. GoodTab(d)
    BY <1>3, <1>4 DEF GoodTab, Behind, Reached
  <1>6. QED
    BY <1>5 DEF d

LEMMA ExpireStep ==
    ASSUME LiveInv, NEW t \in Tabs, Expire(t)
    PROVE  LiveInv'
  BY TabOf, EndedGood, BreakCounts, SetTabKeeps DEF Expire

LEMMA SeeEndStep ==
    ASSUME LiveInv, NEW t \in Tabs, SeeEnd(t)
    PROVE  LiveInv'
  <1>1. tab[t].stream = "ended" /\ SetTab(t, Closed(tab[t])) /\ breaks' = breaks
    BY DEF SeeEnd
  <1>2. GoodTab(Closed(tab[t]))
    BY <1>1, TabOf, ClosedGood DEF GoodTab, Behind, Tidy
  <1>3. QED
    BY <1>1, <1>2, TabOf, SetTabKeeps

LEMMA CutStep ==
    ASSUME LiveInv, NEW t \in Tabs, Cut(t)
    PROVE  LiveInv'
  <1>1. tab[t].stream # "closed" /\ SetTab(t, Closed(tab[t])) /\ Break
    BY DEF Cut
  <1>2. GoodTab(Closed(tab[t]))
    BY <1>1, TabOf, ClosedGood DEF GoodTab, Behind, Tidy
  <1>3. QED
    BY <1>1, <1>2, BreakCounts, SetTabKeeps

(* The steps of the cache: each changes only what the tab holds and asks.  *)
LEMMA FlushStep ==
    ASSUME LiveInv, NEW t \in Tabs, Flush(t)
    PROVE  LiveInv'
  <1> DEFINE c == [tab[t] EXCEPT !.pending = {}]
             told(table) == \E e \in tab[t].pending : c.watch \in table[e]
             d == IF told(Refetched) THEN Invalidated(c)
                  ELSE IF told(Marked) THEN MarkedOnly(c) ELSE c
  <1>1. SetTab(t, d) /\ breaks' = breaks
    BY DEF Flush
  <1>2. c \in Tab
    BY TabOf DEF Tab
  <1>3. /\ c.watch = tab[t].watch /\ c.data = tab[t].data /\ c.read = tab[t].read
        /\ c.asking = tab[t].asking /\ c.stale = tab[t].stale /\ c.stream = tab[t].stream
        /\ c.hasConnected = tab[t].hasConnected /\ c.at = tab[t].at /\ c.wire = tab[t].wire
        /\ c.gap = tab[t].gap
    BY TabOf DEF Tab
  <1> HIDE DEF c
  <1>4. Tidy(c) /\ Holds(c) = Holds(tab[t])
    BY <1>2, <1>3, TabOf DEF Tidy, Holds
  <1>5. GoodTab(d)
    <2>1. CASE told(Refetched)
      BY <2>1, <1>4, TabOf, InvalidatedGood DEF GoodTab
    <2>2. CASE ~told(Refetched) /\ told(Marked)
      BY <2>2, <1>4, TabOf, MarkedOnlyGood DEF GoodTab
    <2>3. CASE ~told(Refetched) /\ ~told(Marked)
      <3>1. ~\E e \in tab[t].pending : About(e, c.watch)
        BY <2>3 DEF About
      <3>2. Reached(tab[t]) => Reached(c)
        BY <3>1, <1>3 DEF Reached
      <3>3. QED
        BY <2>3, <3>2, <1>3, <1>4, TabOf DEF GoodTab, Behind
    <2>4. QED
      BY <2>1, <2>2, <2>3
  <1>6. QED
    BY <1>1, <1>5, TabOf, SetTabKeeps

LEMMA ReadStep ==
    ASSUME LiveInv, NEW t \in Tabs, Read(t)
    PROVE  LiveInv'
  <1> DEFINE c == tab[t]
             d == [c EXCEPT !.read = truth[c.watch]]
  <1>1. c.asking /\ c.read = 0 /\ SetTab(t, d) /\ breaks' = breaks
    BY DEF Read
  <1>2. c \in Tab /\ GoodTab(c) /\ Tidy(c) /\ truth[c.watch] \in Nat \ {0}
    BY TabOf
  <1> HIDE DEF c
  <1>3. d \in Tab
    BY <1>2 DEF Tab
  <1>4. /\ d.watch = c.watch /\ d.data = c.data /\ d.read = truth[c.watch]
        /\ d.asking = c.asking /\ d.stale = c.stale /\ d.stream = c.stream
        /\ d.hasConnected = c.hasConnected /\ d.at = c.at /\ d.gap = c.gap /\ d.wire = c.wire
    BY <1>2 DEF Tab
  <1> HIDE DEF d
  <1>5. GoodTab(d)
    BY <1>1, <1>2, <1>3, <1>4 DEF GoodTab, Tidy, Behind, Holds
  <1>6. QED
    BY <1>1, <1>5, TabOf, SetTabKeeps

LEMMA ReadLandsStep ==
    ASSUME LiveInv, NEW t \in Tabs, ReadLands(t)
    PROVE  LiveInv'
  <1> DEFINE c == tab[t]
             g == c.gap /\ c.read # truth[c.watch]
             d == [c EXCEPT !.data = c.read, !.stale = FALSE, !.asking = FALSE,
                            !.read = 0, !.gap = g]
  <1>1. c.read # 0 /\ SetTab(t, d) /\ breaks' = breaks
    BY DEF ReadLands
  <1>2. c \in Tab /\ GoodTab(c) /\ Tidy(c) /\ truth[c.watch] \in Nat \ {0}
    BY TabOf
  <1>3. g \in BOOLEAN
    OBVIOUS
  <1> HIDE DEF c, g
  <1>4. d \in Tab
    BY <1>2, <1>3 DEF Tab
  <1>5. /\ d.watch = c.watch /\ d.data = c.read /\ d.read = 0
        /\ d.asking = FALSE /\ d.stale = FALSE /\ d.stream = c.stream
        /\ d.hasConnected = c.hasConnected /\ d.at = c.at /\ d.gap = g /\ d.wire = c.wire
        /\ d.pending = c.pending
    BY <1>2 DEF Tab
  <1> HIDE DEF d
  <1>6. Tidy(d)
    BY <1>1, <1>2, <1>4, <1>5 DEF Tidy
  <1>7. Holds(d) = c.read /\ Holds(c) = c.read /\ c.asking
    BY <1>1, <1>2, <1>5 DEF Tidy, Holds
  <1>8. Behind(d) => Reached(d) \/ AboutToHear(d.watch)
    <2> SUFFICES ASSUME Behind(d) PROVE Reached(d) \/ AboutToHear(d.watch)
      OBVIOUS
    <2>1. Behind(c) /\ c.read # truth[c.watch]
      BY <1>2, <1>5, <1>7 DEF Behind, Tab
    <2>2. Reached(c) \/ AboutToHear(c.watch)
      BY <2>1, <1>2 DEF GoodTab
    <2>3. c.gap => g
      BY <2>1 DEF g
    <2>4. QED
      BY <2>2, <2>3, <1>5, <1>7 DEF Reached
  <1>9. GoodTab(d)
    BY <1>6, <1>8 DEF GoodTab
  <1>10. QED
    BY <1>1, <1>9, TabOf, SetTabKeeps DEF d, g, c

LEMMA ReadFailsStep ==
    ASSUME LiveInv, NEW t \in Tabs, ReadFails(t)
    PROVE  LiveInv'
  <1> DEFINE c == tab[t]
             d == [c EXCEPT !.asking = FALSE, !.read = 0]
  <1>1. c.asking /\ c.data # 0 /\ SetTab(t, d) /\ Break
    BY DEF ReadFails
  <1>2. c \in Tab /\ GoodTab(c) /\ Tidy(c)
    BY TabOf
  <1> HIDE DEF c
  <1>3. d \in Tab
    BY <1>2 DEF Tab
  <1>4. /\ d.watch = c.watch /\ d.data = c.data /\ d.read = 0
        /\ d.asking = FALSE /\ d.stale = c.stale /\ d.stream = c.stream
        /\ d.hasConnected = c.hasConnected /\ d.at = c.at /\ d.gap = c.gap /\ d.wire = c.wire
    BY <1>2 DEF Tab
  <1> HIDE DEF d
  <1>5. c.stale \/ c.gap
    BY <1>1, <1>2 DEF Tidy
  <1>6. truth[c.watch] \in Nat
    BY TabOf DEF c
  <1>7. GoodTab(d)
    BY <1>1, <1>2, <1>3, <1>4, <1>5, <1>6 DEF GoodTab, Tidy, Reached
  <1>8. QED
    BY <1>1, <1>7, BreakCounts, SetTabKeeps DEF c

LEMMA ComeBackStep ==
    ASSUME LiveInv, NEW t \in Tabs, ComeBack(t)
    PROVE  LiveInv'
  <1> DEFINE c == tab[t]
             d == [c EXCEPT !.asking = TRUE, !.read = 0]
  <1>1. (c.stale \/ c.gap) /\ SetTab(t, d) /\ breaks' = breaks
    BY DEF ComeBack
  <1>2. c \in Tab /\ GoodTab(c) /\ Tidy(c) /\ truth[c.watch] \in Nat \ {0}
    BY TabOf
  <1> HIDE DEF c
  <1>3. d \in Tab
    BY <1>2 DEF Tab
  <1>4. /\ d.watch = c.watch /\ d.data = c.data /\ d.read = 0
        /\ d.asking = TRUE /\ d.stale = c.stale /\ d.stream = c.stream
        /\ d.hasConnected = c.hasConnected /\ d.at = c.at /\ d.gap = c.gap /\ d.wire = c.wire
    BY <1>2 DEF Tab
  <1> HIDE DEF d
  <1>5. GoodTab(d)
    BY <1>1, <1>2, <1>3, <1>4 DEF GoodTab, Tidy, Behind, Holds
  <1>6. QED
    BY <1>1, <1>5, TabOf, SetTabKeeps DEF c

-----------------------------------------------------------------------------
(* The steps of routes, jobs and processes, which touch every tab.         *)

LEMMA GoodNext ==
    ASSUME NEW u \in Tabs, NEW d, tab'[u] = d, Tidy(d)',
           Behind(d)' => Reached(d) \/ AboutToHear(d.watch)'
    PROVE  GoodTab(tab[u])'
  BY DEF GoodTab, Tidy, Behind, Holds, Reached, AboutToHear

LEMMA SameTruth ==
    ASSUME UNCHANGED truth, NEW d
    PROVE  /\ Tidy(d) => Tidy(d)'
           /\ Behind(d)' => Behind(d)
  BY DEF Tidy, Behind, Holds

LEMMA BeginStep ==
    ASSUME LiveInv, NEW w \in Workers, NEW p \in Procs, NEW s \in Follow, Begin(w, p, s)
    PROVE  LiveInv'
  <1>1. /\ work[w].step = "idle"
        /\ work' = [work EXCEPT ![w] = [step |-> "commit", at |-> p, site |-> s]]
        /\ UNCHANGED <<truth, proc, tab, breaks>>
    BY DEF Begin, Steps
  <1>2. s \in DOMAIN Sites /\ work \in [Workers -> Work]
    BY LiveEventsAssumption DEF LiveInv
  <1>3. [step |-> "commit", at |-> p, site |-> s] \in Work
    BY <1>2 DEF Work
  <1>4. work' \in [Workers -> Work]
    BY <1>1, <1>2, <1>3
  <1>5. \A v \in Workers : work'[v].step # "idle" => work'[v].site \in DOMAIN Sites
                                                    /\ work'[v].at \in Procs
    BY <1>1, <1>2 DEF LiveInv
  <1>6. \A v \in Workers : work[v].step = "publish" => work'[v] = work[v]
    BY <1>1, <1>2
  <1>7. \A q : AboutToHear(q) => AboutToHear(q)'
    BY <1>6 DEF AboutToHear
  <1>8. ASSUME NEW u \in Tabs PROVE GoodTab(tab[u])'
    <2>1. PICK d : d = tab[u]
      OBVIOUS
    <2>2. tab'[u] = d /\ GoodTab(d)
      BY <1>1, <2>1 DEF LiveInv
    <2>3. QED
      BY <1>1, <1>7, <2>2, GoodNext, SameTruth DEF GoodTab
  <1>9. QED
    BY <1>1, <1>4, <1>5, <1>8 DEF LiveInv

LEMMA CommitStep ==
    ASSUME LiveInv, NEW w \in Workers, Commit(w)
    PROVE  LiveInv'
  <1> DEFINE s == work[w].site
             watched == {tab[t].watch : t \in Tabs}
  <1>1. /\ work[w].step = "commit"
        /\ truth' = [q \in Queries |->
                        IF q \in Sites[s].moves \cap watched THEN truth[q] + 1 ELSE truth[q]]
        /\ tab' = [t \in Tabs |->
                     [tab[t] EXCEPT !.gap = @ \/ /\ tab[t].watch \in Sites[s].moves
                                                 /\ ~Concerns(s, tab[t].watch)]]
        /\ work' = [work EXCEPT ![w] = [work[w] EXCEPT !.step = "publish"]]
        /\ UNCHANGED <<proc, breaks>>
    BY DEF Commit, Advance, Steps
  <1>2. /\ truth \in [Queries -> Nat \ {0}] /\ work \in [Workers -> Work]
        /\ work[w] \in Work /\ s \in DOMAIN Sites /\ work[w].at \in Procs
    BY <1>1 DEF LiveInv
  <1>3. [work[w] EXCEPT !.step = "publish"] \in Work
    BY <1>2 DEF Work
  <1>4. work' \in [Workers -> Work]
    BY <1>1, <1>2, <1>3
  <1>5. work'[w].step = "publish" /\ work'[w].site = s /\ work'[w].at = work[w].at
    BY <1>1, <1>2 DEF Work
  <1>6. \A v \in Workers \ {w} : work'[v] = work[v]
    BY <1>1, <1>2
  <1>7. \A v \in Workers : work'[v].step # "idle" => work'[v].site \in DOMAIN Sites
                                                    /\ work'[v].at \in Procs
    BY <1>2, <1>5, <1>6 DEF LiveInv
  <1>8. \A q : AboutToHear(q) => AboutToHear(q)'
    BY <1>1, <1>6 DEF AboutToHear
  <1>9. \A q : Concerns(s, q) => AboutToHear(q)'
    BY <1>5 DEF AboutToHear
  <1> HIDE DEF watched, s
  <1>10. truth' \in [Queries -> Nat \ {0}]
    BY <1>1, <1>2
  <1>11. \A q \in Queries : truth[q] <= truth'[q] /\ (q \notin Sites[s].moves => truth'[q] = truth[q])
    BY <1>1, <1>2
  <1>12. ASSUME NEW u \in Tabs PROVE GoodTab(tab[u])' /\ tab'[u] \in Tab
    <2>1. PICK c : c = tab[u]
      OBVIOUS
    <2>2. c \in Tab /\ Tidy(c) /\ GoodTab(c) /\ c.watch \in Queries
      BY <2>1, TabOf
    <2>3. PICK g : g = (c.gap \/ (c.watch \in Sites[s].moves /\ ~Concerns(s, c.watch)))
      OBVIOUS
    <2>4. g \in BOOLEAN /\ (c.gap => g)
      BY <2>3
    <2>5. PICK d : d = [c EXCEPT !.gap = g]
      OBVIOUS
    <2>6. tab'[u] = d
      BY <1>1, <2>1, <2>3, <2>5
    <2>7. d \in Tab
      BY <2>2, <2>4, <2>5 DEF Tab
    <2>8. /\ d.watch = c.watch /\ d.data = c.data /\ d.read = c.read
          /\ d.asking = c.asking /\ d.stale = c.stale /\ d.stream = c.stream
          /\ d.hasConnected = c.hasConnected /\ d.at = c.at /\ d.gap = g /\ d.wire = c.wire
          /\ d.pending = c.pending
      BY <2>2, <2>5 DEF Tab
    <2>9. /\ truth[c.watch] \in Nat /\ truth'[c.watch] \in Nat
          /\ c.data \in Nat /\ c.read \in Nat
      BY <1>2, <1>10, <2>2 DEF Tab
    <2>10. Tidy(d)'
      BY <1>11, <2>2, <2>4, <2>7, <2>8, <2>9 DEF Tidy
    <2>11. ASSUME Behind(d)' PROVE Reached(d) \/ AboutToHear(d.watch)'
      <3>1. CASE c.watch \notin Sites[s].moves
        <4>1. Behind(c)
          BY <3>1, <1>11, <2>2, <2>8, <2>11 DEF Behind, Holds
        <4>2. Reached(c) => Reached(d)
          BY <2>4, <2>8 DEF Reached
        <4>3. QED
          BY <4>1, <4>2, <1>8, <2>2, <2>8 DEF GoodTab
      <3>2. CASE c.watch \in Sites[s].moves /\ Concerns(s, c.watch)
        BY <3>2, <1>9, <2>8
      <3>3. CASE c.watch \in Sites[s].moves /\ ~Concerns(s, c.watch)
        BY <3>3, <2>3, <2>8 DEF Reached
      <3>4. QED
        BY <3>1, <3>2, <3>3
    <2>12. QED
      BY <2>6, <2>7, <2>10, <2>11, GoodNext
  <1>13. tab' \in [Tabs -> Tab]
    BY <1>1, <1>12
  <1>14. QED
    BY <1>1, <1>4, <1>7, <1>10, <1>12, <1>13 DEF LiveInv

(* A tab that is not on the stream of a commit's process: it is in a gap,  *)
(* unless its stream comes back for it.                                    *)
LEMMA UnheardGood ==
    ASSUME NEW c, Tidy(c), NEW s
    PROVE  /\ Tidy(Unheard(c, s))
           /\ Unheard(c, s).watch = c.watch
           /\ Holds(Unheard(c, s)) = Holds(c)
           /\ Reached(c) => Reached(Unheard(c, s))
           /\ Behind(c) /\ Concerns(s, c.watch) => Reached(Unheard(c, s))
  <1> DEFINE g == c.gap \/ Misses(c, s)
             d == [c EXCEPT !.gap = g]
  <1>1. Unheard(c, s) = d /\ c \in Tab
    BY DEF Unheard, Tidy
  <1>2. g \in BOOLEAN /\ (c.gap => g) /\ (Misses(c, s) => g)
    OBVIOUS
  <1> HIDE DEF g
  <1>3. d \in Tab
    BY <1>1, <1>2 DEF Tab
  <1>4. /\ d.watch = c.watch /\ d.data = c.data /\ d.read = c.read
        /\ d.asking = c.asking /\ d.stale = c.stale /\ d.stream = c.stream
        /\ d.hasConnected = c.hasConnected /\ d.at = c.at /\ d.gap = g /\ d.wire = c.wire
        /\ d.pending = c.pending
    BY <1>1 DEF Tab
  <1> HIDE DEF d
  <1>5. Tidy(d) /\ Holds(d) = Holds(c)
    BY <1>2, <1>3, <1>4 DEF Tidy, Holds
  <1>6. Reached(c) => Reached(d)
    BY <1>2, <1>4 DEF Reached
  <1>7. ASSUME Behind(c), Concerns(s, c.watch) PROVE Reached(d)
    <2>1. CASE c.stream = "open" \/ ~c.hasConnected \/ c.watch \notin Resynced
      <3>1. Misses(c, s)
        BY <2>1, <1>7 DEF Misses, Behind
      <3>2. QED
        BY <3>1, <1>2, <1>4 DEF Reached
    <2>2. CASE ~(c.stream = "open" \/ ~c.hasConnected \/ c.watch \notin Resynced)
      BY <2>2, <1>4 DEF Reached
    <2>3. QED
      BY <2>1, <2>2
  <1>8. QED
    BY <1>1, <1>4, <1>5, <1>6, <1>7

(* What a site tells goes to every tab on the stream that it concerns.     *)
LEMMA FedGood ==
    ASSUME NEW c, Tidy(c), truth \in [Queries -> Nat \ {0}], c.stream = "open",
           NEW s \in DOMAIN Sites
    PROVE  LET d == Send(c, SetToSeq({e \in Sites[s].tells : Hears(c.watch, e)}))
           IN  /\ Tidy(d)
               /\ d.watch = c.watch
               /\ Holds(d) = Holds(c)
               /\ Behind(c) /\ Reached(c) => Reached(d)
               /\ Behind(c) /\ Concerns(s, c.watch) => Reached(d)
  <1> DEFINE S == {e \in Sites[s].tells : Hears(c.watch, e)}
             evs == SetToSeq(S)
  <1>1. S \in SUBSET TICKET_EVENT /\ c.watch \in Queries
    BY SitesTell DEF Tidy, Tab
  <1>2. IsFiniteSet(S)
    BY <1>1, EventsFinite, FS_Subset
  <1>3. Concerns(s, c.watch) => \E e \in S : About(e, c.watch)
    BY <1>1, SitesTell, ConcernedHear DEF Concerns, About
  <1> HIDE DEF S
  <1>4. evs \in Seq(S) /\ \A e \in S : \E i \in 1..Len(evs) : evs[i] = e
    BY <1>2, SetToSeqLists
  <1>5. evs \in Seq(TICKET_EVENT)
    BY <1>1, <1>4
  <1>6. Concerns(s, c.watch) => \E i \in 1..Len(evs) : About(evs[i], c.watch)
    BY <1>3, <1>4
  <1> HIDE DEF evs
  <1>7. QED
    BY <1>5, <1>6, SendTidy DEF evs, S

LEMMA PublishStep ==
    ASSUME LiveInv, NEW w \in Workers, Publish(w)
    PROVE  LiveInv'
  <1> DEFINE s == work[w].site
             p == work[w].at
  <1>1. /\ work[w].step = "publish"
        /\ tab' = FanOut(p, s)
        /\ work' = [work EXCEPT ![w] = NoWork]
        /\ UNCHANGED <<truth, proc, breaks>>
    BY DEF Publish, Advance, Steps
  <1>2. /\ truth \in [Queries -> Nat \ {0}] /\ work \in [Workers -> Work]
        /\ s \in DOMAIN Sites
    BY <1>1 DEF LiveInv
  <1>3. NoWork \in Work
    BY DEF NoWork, Work
  <1>4. work' \in [Workers -> Work] /\ work'[w].step = "idle"
    BY <1>1, <1>2, <1>3 DEF NoWork
  <1>5. \A v \in Workers \ {w} : work'[v] = work[v]
    BY <1>1, <1>2
  <1>6. \A v \in Workers : work'[v].step # "idle" => work'[v].site \in DOMAIN Sites
                                                    /\ work'[v].at \in Procs
    BY <1>4, <1>5 DEF LiveInv
  <1>7. \A q : AboutToHear(q) => AboutToHear(q)' \/ Concerns(s, q)
    BY <1>5 DEF AboutToHear
  <1> HIDE DEF s, p
  <1>8. ASSUME NEW u \in Tabs PROVE GoodTab(tab[u])' /\ tab'[u] \in Tab
    <2>1. PICK c : c = tab[u]
      OBVIOUS
    <2>2. c \in Tab /\ Tidy(c) /\ GoodTab(c)
      BY <2>1, TabOf
    <2>3. PICK d : d = IF c.stream = "open" /\ c.at = p
                       THEN Send(c, SetToSeq({e \in Sites[s].tells : Hears(c.watch, e)}))
                       ELSE Unheard(c, s)
      OBVIOUS
    <2>4. tab'[u] = d
      BY <1>1, <2>1, <2>3 DEF FanOut
    <2>5. /\ Tidy(d) /\ d.watch = c.watch /\ Holds(d) = Holds(c)
          /\ Behind(c) /\ Reached(c) => Reached(d)
          /\ Behind(c) /\ Concerns(s, c.watch) => Reached(d)
      <3>1. CASE c.stream = "open" /\ c.at = p
        BY <3>1, <2>2, <2>3, <1>2, FedGood
      <3>2. CASE ~(c.stream = "open" /\ c.at = p)
        BY <3>2, <2>2, <2>3, UnheardGood
      <3>3. QED
        BY <3>1, <3>2
    <2>6. Tidy(d)' /\ (Behind(d)' => Behind(d)) /\ d \in Tab
      BY <1>1, <2>5, SameTruth DEF Tidy
    <2>7. Behind(d) => Behind(c)
      BY <2>5 DEF Behind
    <2>8. Behind(d)' => Reached(d) \/ AboutToHear(d.watch)'
      BY <1>7, <2>2, <2>5, <2>6, <2>7 DEF GoodTab
    <2>9. QED
      BY <2>4, <2>6, <2>8, GoodNext
  <1>9. tab' \in [Tabs -> Tab]
    BY <1>1, <1>8 DEF FanOut
  <1>10. QED
    BY <1>1, <1>2, <1>4, <1>6, <1>8, <1>9 DEF LiveInv

(* A process that comes up or goes away with nothing left to do.           *)
LEMMA ProcStep ==
    ASSUME LiveInv, NEW p \in Procs, Deploy(p) \/ Exit(p)
    PROVE  LiveInv'
  <1>1. UNCHANGED <<truth, work, tab, breaks>> /\ proc' \in [Procs -> {"next", "up", "draining"}]
    BY DEF Deploy, Exit, LiveInv
  <1>2. ASSUME NEW u \in Tabs PROVE GoodTab(tab[u])'
    BY <1>1 DEF LiveInv, GoodTab, Tidy, Behind, Holds, Reached, AboutToHear
  <1>3. QED
    BY <1>1, <1>2 DEF LiveInv

LEMMA DrainStep ==
    ASSUME LiveInv, NEW p \in Procs, Drain(p)
    PROVE  LiveInv'
  <1>1. /\ UNCHANGED <<truth, work>> /\ proc' \in [Procs -> {"next", "up", "draining"}]
        /\ tab' = [t \in Tabs |-> IF tab[t].at = p /\ tab[t].stream = "open"
                                  THEN [tab[t] EXCEPT !.stream = "ended"] ELSE tab[t]]
        /\ breaks' \in 0..MaxBreaks
    BY BreakCounts DEF Drain, LiveInv
  <1>2. \A q : AboutToHear(q) => AboutToHear(q)'
    BY <1>1 DEF AboutToHear
  <1>3. ASSUME NEW u \in Tabs PROVE GoodTab(tab[u])' /\ tab'[u] \in Tab
    <2>1. PICK d : d = tab'[u]
      OBVIOUS
    <2>2. GoodTab(d)
      BY <1>1, <2>1, TabOf, EndedGood
    <2>3. QED
      BY <1>1, <1>2, <2>1, <2>2, GoodNext, SameTruth DEF GoodTab, Tidy
  <1>4. tab' \in [Tabs -> Tab]
    BY <1>1, <1>3
  <1>5. QED
    BY <1>1, <1>3, <1>4 DEF LiveInv

LEMMA KillStep ==
    ASSUME LiveInv, NEW p \in Procs, Kill(p)
    PROVE  LiveInv'
  <1> DEFINE lost == {w \in Workers : work[w].at = p /\ work[w].step = "publish"}
             After(c) == IF c.at = p THEN Closed(c) ELSE c
  <1>1. /\ UNCHANGED truth /\ proc' \in [Procs -> {"next", "up", "draining"}]
        /\ work' = [w \in Workers |-> IF work[w].at = p THEN NoWork ELSE work[w]]
        /\ tab' = [t \in Tabs |->
                 [After(tab[t]) EXCEPT
                    !.gap = @ \/ \E w \in lost : Misses(After(tab[t]), work[w].site)]]
        /\ breaks' \in 0..MaxBreaks
    BY BreakCounts DEF Kill, LiveInv
  <1>2. truth \in [Queries -> Nat \ {0}] /\ work \in [Workers -> Work]
    BY DEF LiveInv
  <1>3. NoWork \in Work /\ NoWork.step = "idle"
    BY DEF NoWork, Work
  <1>4. work' \in [Workers -> Work]
    BY <1>1, <1>2, <1>3
  <1>5. \A v \in Workers : work'[v].step # "idle" => work'[v].site \in DOMAIN Sites
                                                    /\ work'[v].at \in Procs
    BY <1>1, <1>3 DEF LiveInv
  <1>6. \A q : AboutToHear(q) => AboutToHear(q)' \/ \E w \in lost : Concerns(work[w].site, q)
    BY <1>1 DEF AboutToHear
  <1>7. ASSUME NEW u \in Tabs PROVE GoodTab(tab[u])' /\ tab'[u] \in Tab
    <2>1. PICK b : b = tab[u]
      OBVIOUS
    <2>2. b \in Tab /\ Tidy(b) /\ GoodTab(b)
      BY <2>1, TabOf
    <2>3. PICK c : c = After(b)
      OBVIOUS
    <2>4. /\ Tidy(c) /\ c.watch = b.watch /\ Holds(c) = Holds(b)
          /\ Behind(b) /\ Reached(b) => Reached(c)
      <3>1. CASE b.at = p
        <4>1. b.hasConnected
          BY <3>1, <2>2, LiveEventsAssumption DEF Tidy
        <4>2. QED
          BY <3>1, <4>1, <2>2, <2>3, <1>2, ClosedGood
      <3>2. CASE b.at # p
        BY <3>2, <2>2, <2>3
      <3>3. QED
        BY <3>1, <3>2
    <2>5. PICK g : g = (c.gap \/ \E w \in lost : Misses(c, work[w].site))
      OBVIOUS
    <2>6. g \in BOOLEAN /\ (c.gap => g) /\ ((\E w \in lost : Misses(c, work[w].site)) => g)
      BY <2>5
    <2>7. PICK d : d = [c EXCEPT !.gap = g]
      OBVIOUS
    <2>8. tab'[u] = d
      BY <1>1, <2>1, <2>3, <2>5, <2>7
    <2>9. c \in Tab /\ d \in Tab
      BY <2>4, <2>6, <2>7 DEF Tidy, Tab
    <2>10. /\ d.watch = c.watch /\ d.data = c.data /\ d.read = c.read
           /\ d.asking = c.asking /\ d.stale = c.stale /\ d.stream = c.stream
           /\ d.hasConnected = c.hasConnected /\ d.at = c.at /\ d.gap = g /\ d.wire = c.wire
           /\ d.pending = c.pending
      BY <2>7, <2>9 DEF Tab
    <2> HIDE DEF lost, After
    <2>11. Tidy(d) /\ Holds(d) = Holds(c)
      BY <2>4, <2>6, <2>9, <2>10 DEF Tidy, Holds
    <2>12. Reached(c) => Reached(d)
      BY <2>6, <2>10 DEF Reached
    <2>13. ASSUME Behind(d), NEW w \in lost, Concerns(work[w].site, d.watch)
           PROVE  Reached(d)
      <3>1. CASE Misses(c, work[w].site)
        BY <3>1, <2>6, <2>10 DEF Reached
      <3>2. CASE ~Misses(c, work[w].site)
        <4>1. Concerns(work[w].site, c.watch) /\ Holds(c) < truth[c.watch]
          BY <2>10, <2>11, <2>13 DEF Behind
        <4>2. ~(c.stream = "open" \/ ~c.hasConnected \/ c.watch \notin Resynced)
          BY <3>2, <4>1 DEF Misses
        <4>3. QED
          BY <4>2, <2>10 DEF Reached
      <3>3. QED
        BY <3>1, <3>2
    <2>14. Tidy(d)' /\ (Behind(d)' => Behind(d))
      BY <1>1, <2>11, SameTruth
    <2>15. Behind(d) => Behind(b)
      BY <2>4, <2>10, <2>11 DEF Behind
    <2>16. ASSUME Behind(d) PROVE Reached(d) \/ AboutToHear(d.watch)'
      <3>1. Reached(b) \/ AboutToHear(b.watch)
        BY <2>2, <2>15, <2>16 DEF GoodTab
      <3>2. CASE Reached(b)
        BY <3>2, <2>4, <2>12, <2>15, <2>16
      <3>3. CASE AboutToHear(b.watch)
        BY <3>3, <1>6, <2>4, <2>10, <2>13, <2>16
      <3>4. QED
        BY <3>1, <3>2, <3>3
    <2>17. QED
      BY <2>8, <2>9, <2>14, <2>16, GoodNext
  <1>8. tab' \in [Tabs -> Tab]
    BY <1>1, <1>7
  <1>9. QED
    BY <1>1, <1>4, <1>5, <1>7, <1>8, <1>2 DEF LiveInv

-----------------------------------------------------------------------------
LEMMA LiveInvInit == LiveInit => LiveInv
  <1> SUFFICES ASSUME LiveInit PROVE LiveInv
    OBVIOUS
  <1>1. NoWork \in Work /\ NoWork.step = "idle"
    BY DEF NoWork, Work
  <1>2. ASSUME NEW q \in Watchable
        PROVE  NewTab(q) \in Tab /\ GoodTab(NewTab(q))
    <2> DEFINE empty == <<>>
    <2>1. empty \in Seq(TICKET_EVENT) /\ Len(empty) = 0
      OBVIOUS
    <2>2. q \in Queries /\ truth[q] = 1
      BY LiveEventsAssumption DEF LiveInit
    <2>3. NewTab(q) = [watch |-> q, data |-> 0, stale |-> FALSE, asking |-> TRUE, read |-> 0,
                       stream |-> "closed", at |-> "none", hasConnected |-> FALSE,
                       wire |-> empty, pending |-> {}, gap |-> FALSE]
      BY DEF NewTab
    <2> HIDE DEF empty
    <2>4. NewTab(q) \in Tab
      BY <2>1, <2>2, <2>3 DEF Tab
    <2>5. Tidy(NewTab(q))
      BY <2>1, <2>2, <2>3, <2>4, LiveEventsAssumption DEF Tidy
    <2>6. ~Behind(NewTab(q))
      BY <2>2, <2>3 DEF Behind, Holds
    <2>7. QED
      BY <2>4, <2>5, <2>6 DEF GoodTab
  <1>3. tab \in [Tabs -> {NewTab(q) : q \in Watchable}]
    BY DEF LiveInit
  <1>4. tab \in [Tabs -> Tab] /\ \A t \in Tabs : GoodTab(tab[t])
    BY <1>2, <1>3
  <1>5. proc \in [Procs -> {"next", "up", "draining"}] /\ breaks \in 0..MaxBreaks
    BY LiveEventsAssumption DEF LiveInit
  <1>6. truth \in [Queries -> Nat \ {0}]
    BY DEF LiveInit
  <1>7. work \in [Workers -> Work] /\ \A w \in Workers : work[w].step = "idle"
    BY <1>1 DEF LiveInit
  <1>8. QED
    BY <1>4, <1>5, <1>6, <1>7 DEF LiveInv

LEMMA LiveInvStep == LiveInv /\ [LiveNext]_liveVars => LiveInv'
  <1> SUFFICES ASSUME LiveInv, [LiveNext]_liveVars PROVE LiveInv'
    OBVIOUS
  <1>1. ASSUME NEW w \in Workers, WorkerStep(w) PROVE LiveInv'
    BY <1>1, CommitStep, PublishStep DEF WorkerStep
  <1>2. ASSUME NEW w \in Workers, NEW p \in Procs, NEW s \in Follow, Begin(w, p, s)
        PROVE  LiveInv'
    BY <1>2, BeginStep
  <1>3. ASSUME NEW p \in Procs, Deploy(p) \/ Drain(p) \/ Exit(p) \/ Kill(p) PROVE LiveInv'
    BY <1>3, ProcStep, DrainStep, KillStep
  <1>4. ASSUME NEW t \in Tabs, TabStep(t) PROVE LiveInv'
    BY <1>4, ReceiveStep, SeeEndStep, FlushStep, ReadStep, ReadLandsStep, OpenStep DEF TabStep
  <1>5. ASSUME NEW t \in Tabs, Expire(t) \/ Cut(t) \/ ReadFails(t) \/ ComeBack(t)
        PROVE  LiveInv'
    BY <1>5, ExpireStep, CutStep, ReadFailsStep, ComeBackStep
  <1>6. CASE UNCHANGED liveVars
    BY <1>6 DEF liveVars, LiveInv, GoodTab, Tidy, Behind, Holds, Reached, AboutToHear
  <1>7. QED
    BY <1>1, <1>2, <1>3, <1>4, <1>5, <1>6 DEF LiveNext

LEMMA LiveInvIsHonest == LiveInv => LiveInvariant
  <1> SUFFICES ASSUME LiveInv PROVE LiveInvariant
    OBVIOUS
  <1>1. LiveTypeOK
    BY DEF LiveInv, LiveTypeOK, GoodTab, Tidy
  <1>2. ASSUME NEW t \in Tabs, Quiet(t), tab[t].data # truth[tab[t].watch]
        PROVE  tab[t].stale \/ tab[t].gap
    <2>1. Holds(tab[t]) = tab[t].data
      BY <1>2 DEF Quiet, Holds
    <2>2. tab[t].data <= truth[tab[t].watch] /\ tab[t].data \in Nat /\ truth[tab[t].watch] \in Nat
      BY TabOf DEF Tidy, Tab
    <2>3. Behind(tab[t])
      BY <1>2, <2>1, <2>2 DEF Behind
    <2>4. ~AboutToHear(tab[t].watch)
      BY <1>2 DEF Quiet, AboutToHear
    <2>5. Reached(tab[t])
      BY <2>3, <2>4, TabOf DEF GoodTab
    <2>6. QED
      BY <1>2, <2>5 DEF Quiet, Reached
  <1>3. QED
    BY <1>1, <1>2 DEF LiveInvariant, QuietScreenIsHonest

(* Theorem: a connected screen with nothing on its way to it shows the     *)
(* truth or knows that it does not, for any number of tabs, processes,     *)
(* routes in flight and commits, and a buffer of any size, but for the     *)
(* gaps the design accepts.                                                *)
THEOREM QuietScreensAreHonest == LiveSpec => []LiveInvariant
  <1>1. LiveSpec => []LiveInv
    BY LiveInvInit, LiveInvStep, PTL DEF LiveSpec
  <1>2. QED
    BY <1>1, LiveInvIsHonest, PTL
=============================================================================
