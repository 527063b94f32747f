-------------------------- MODULE KnowledgeProofs --------------------------
(***************************************************************************)
(* Proofs about Knowledge, for any admins and articles, any number of      *)
(* requests under way and however many are let in.                         *)
(***************************************************************************)
EXTENDS Knowledge, FiniteSetTheorems, SequenceTheorems, TLAPS

-----------------------------------------------------------------------------
(* Types, by parts.                                                        *)

BaseOK ==
    /\ article \in [Articles -> Article]
    /\ revision \in Seq(Revision)
    /\ aged \in 0..Len(revision)

PruneOK ==
    prune \in [running : BOOLEAN, cutoff : 0..aged, keep : SUBSET (DOMAIN revision)]

ReqOK == req \in [Requests -> Req] /\ asked \in 0..MaxAsked

LEMMA TypeParts == TypeOK <=> BaseOK /\ PruneOK /\ ReqOK
  BY DEF TypeOK, BaseOK, PruneOK, ReqOK

(* A request that got as far as a step has been let in, and what it is     *)
(* about is there; what an admin may write straight through is outside the *)
(* corpus, and nobody approves their own proposal.                         *)
Placed == {"readEdit", "edit", "checkPending", "propose", "readArchive", "archive"}

Sound(q) ==
    /\ q.step # "idle" => q.by \in Admins
    /\ q.step \in Placed \cup {"create"} => q.article \in Articles
    /\ q.step \in Placed => article[q.article].there
    /\ q.step = "edit" => ~q.flag
    /\ q.step \in {"approve", "reject"} => q.revision \in DOMAIN revision
    /\ q.step = "approve" => revision[q.revision].editor # q.by

RequestsSound == \A r \in Requests : Sound(req[r])

(* What no step ever does to the history: a revision is neither rewritten  *)
(* nor decided twice, and no article goes away.                            *)
Grows ==
    /\ revision' \in Seq(Revision)
    /\ Len(revision) <= Len(revision')
    /\ \A i \in DOMAIN revision :
         /\ revision'[i].article = revision[i].article
         /\ revision'[i].action = revision[i].action
         /\ revision'[i].text = revision[i].text
         /\ revision'[i].autoReply = revision[i].autoReply
         /\ revision'[i].editor = revision[i].editor
         /\ revision[i].status # "pending" =>
               /\ revision'[i].status = revision[i].status
               /\ revision'[i].approver = revision[i].approver
    /\ article' \in [Articles -> Article]
    /\ \A a \in Articles : article[a].there => article'[a].there

LEMMA History ==
  ASSUME NEW s \in Seq(Revision)
  PROVE  Len(s) \in Nat /\ DOMAIN s = 1..Len(s) /\ \A i \in DOMAIN s : s[i] \in Revision
  BY LenProperties, ElementOfSeq

LEMMA SoundKept ==
  ASSUME BaseOK, Grows, NEW q, Sound(q)
  PROVE  Sound(q)'
  <1>1. DOMAIN revision \subseteq DOMAIN revision'
    BY History DEF BaseOK, Grows
  <1>2. QED
    BY <1>1 DEF Sound, Grows, Placed

(* A history that gains one revision.                                      *)
LEMMA Appended ==
  ASSUME BaseOK, NEW v \in Revision, revision' = Append(revision, v)
  PROVE  /\ revision' \in Seq(Revision)
         /\ Len(revision') = Len(revision) + 1
         /\ DOMAIN revision' = DOMAIN revision \cup {Len(revision) + 1}
         /\ \A i \in DOMAIN revision : revision'[i] = revision[i]
         /\ revision'[Len(revision) + 1] = v
  <1>1. revision \in Seq(Revision)
    BY DEF BaseOK
  <1>2. QED
    BY <1>1, AppendProperties, History

(* One that has a revision decided, or pruned.                             *)
LEMMA Replaced ==
  ASSUME BaseOK, NEW i \in DOMAIN revision, NEW v \in Revision,
         revision' = [revision EXCEPT ![i] = v]
  PROVE  /\ revision' \in Seq(Revision)
         /\ Len(revision') = Len(revision)
         /\ DOMAIN revision' = DOMAIN revision
         /\ revision'[i] = v
         /\ \A j \in DOMAIN revision : j # i => revision'[j] = revision[j]
  <1>1. revision \in Seq(Revision) /\ i \in 1..Len(revision)
    BY History DEF BaseOK
  <1>2. QED
    BY <1>1, ExceptSeq, History

(* The record that a decision, or the prune, leaves of a revision.         *)
LEMMA DecidedRecord ==
  ASSUME BaseOK, RequestsSound, NEW r \in Requests,
         req[r].step \in {"approve", "reject"}, NEW status \in {"approved", "rejected"}
  PROVE  LET i == req[r].revision
             v == [revision[i] EXCEPT !.status = status, !.approver = req[r].by] IN
         /\ i \in DOMAIN revision
         /\ v \in Revision
         /\ Decided(r, status) = [revision EXCEPT ![i] = v]
         /\ v.article = revision[i].article /\ v.action = revision[i].action
         /\ v.text = revision[i].text /\ v.autoReply = revision[i].autoReply
         /\ v.editor = revision[i].editor /\ v.kept = revision[i].kept
         /\ v.status = status /\ v.approver = req[r].by
  <1> DEFINE i == req[r].revision
             v == [revision[i] EXCEPT !.status = status, !.approver = req[r].by]
  <1>1. i \in DOMAIN revision /\ req[r].by \in Admins
    BY DEF RequestsSound, Sound
  <1>2. revision \in Seq(Revision) /\ revision[i] \in Revision
    BY <1>1, History DEF BaseOK
  <1>3. /\ v \in Revision
        /\ v.article = revision[i].article /\ v.action = revision[i].action
        /\ v.text = revision[i].text /\ v.autoReply = revision[i].autoReply
        /\ v.editor = revision[i].editor /\ v.kept = revision[i].kept
        /\ v.status = status /\ v.approver = req[r].by
    BY <1>1, <1>2 DEF Revision
  <1>4. Decided(r, status) = [revision EXCEPT ![i] = v]
    BY <1>1, <1>2 DEF Decided, Revision
  <1>5. QED
    BY <1>1, <1>3, <1>4

-----------------------------------------------------------------------------
(* Requests.                                                               *)

Proposers(a) == {r \in Requests : req[r].step = "propose" /\ req[r].article = a}

LEMMA ReqMoves ==
  ASSUME BaseOK, ReqOK, RequestsSound, Grows, NEW r \in Requests, NEW x \in Req,
         req' = [req EXCEPT ![r] = x], Sound(x)', asked' \in 0..MaxAsked
  PROVE  /\ ReqOK' /\ RequestsSound'
         /\ x.step # "propose" => /\ \A a \in Articles : Proposers(a)' \subseteq Proposers(a)
                                 /\ \A a \in Articles : r \notin Proposers(a)'
  <1>1. req'[r] = x /\ \A s \in Requests : s # r => req'[s] = req[s]
    BY DEF ReqOK
  <1>2. \A s \in Requests : s # r => req'[s] = req[s] /\ Sound(req[s])'
    <2>1. TAKE s \in Requests
    <2>2. HAVE s # r
    <2>3. PICK q : q = req[s]
      OBVIOUS
    <2>4. Sound(q)
      BY <2>3 DEF RequestsSound
    <2>5. Sound(q)'
      BY <2>4, SoundKept
    <2>6. QED
      BY <1>1, <2>2, <2>3, <2>5 DEF Sound
  <1>3. RequestsSound'
    BY <1>1, <1>2 DEF RequestsSound, Sound
  <1>4. ReqOK'
    BY DEF ReqOK
  <1>5. QED
    BY <1>1, <1>3, <1>4 DEF Proposers

LEMMA AnswerMoves ==
  ASSUME BaseOK, ReqOK, RequestsSound, Grows, NEW r \in Requests, Answer(r),
         UNCHANGED asked
  PROVE  /\ ReqOK' /\ RequestsSound'
         /\ \A a \in Articles : Proposers(a)' \subseteq Proposers(a)
         /\ \A a \in Articles : r \notin Proposers(a)'
  <1>1. NoReq \in Req /\ NoReq.step = "idle"
    BY KnowledgeAssumption DEF NoReq, Req, Text
  <1>2. Sound(NoReq)'
    BY <1>1 DEF Sound, Placed
  <1>3. asked' \in 0..MaxAsked /\ req' = [req EXCEPT ![r] = NoReq]
    BY DEF ReqOK, Answer
  <1>4. QED
    BY <1>1, <1>2, <1>3, ReqMoves

LEMMA GoOnMoves ==
  ASSUME BaseOK, ReqOK, RequestsSound, Grows, NEW r \in Requests,
         req[r].step \in Placed,
         NEW step \in {"checkPending", "edit", "propose", "archive"}, GoOn(r, step),
         step = "edit" => ~req[r].flag, UNCHANGED asked
  PROVE  /\ ReqOK' /\ RequestsSound'
         /\ step # "propose" => \A a \in Articles : Proposers(a)' \subseteq Proposers(a)
         /\ req' = [req EXCEPT ![r] = [req[r] EXCEPT !.step = step]]
         /\ [req[r] EXCEPT !.step = step].article = req[r].article
  <1>1. PICK x \in Req : x = [req[r] EXCEPT !.step = step]
    BY DEF ReqOK, Req
  <1>2. /\ x.step = step /\ x.by = req[r].by /\ x.flag = req[r].flag
        /\ x.article = req[r].article
    BY <1>1 DEF ReqOK, Req
  <1>3. Sound(req[r]) /\ req[r].step # "idle"
    BY DEF RequestsSound, Placed
  <1>4. Sound(x)
    BY <1>2, <1>3 DEF Sound, Placed
  <1>5. Sound(x)'
    BY <1>4, SoundKept
  <1>6. req' = [req EXCEPT ![r] = x] /\ asked' \in 0..MaxAsked
    BY <1>1 DEF GoOn, ReqOK
  <1>7. /\ ReqOK' /\ RequestsSound'
        /\ step # "propose" => \A a \in Articles : Proposers(a)' \subseteq Proposers(a)
    BY <1>2, <1>5, <1>6, ReqMoves
  <1>8. QED
    BY <1>1, <1>2, <1>6, <1>7

LEMMA LetInMoves ==
  ASSUME BaseOK, ReqOK, RequestsSound, Grows, NEW r \in Requests, NEW q \in Req,
         LetIn(r, q), Sound(q), q.step # "propose"
  PROVE  /\ ReqOK' /\ RequestsSound'
         /\ \A a \in Articles : Proposers(a)' \subseteq Proposers(a)
         /\ UNCHANGED <<article, revision, aged, prune>>
  <1>1. /\ req' = [req EXCEPT ![r] = q]
        /\ UNCHANGED <<article, revision, aged, prune>>
    BY DEF LetIn
  <1>2. asked' \in 0..MaxAsked
    BY KnowledgeAssumption DEF LetIn, ReqOK
  <1>3. Sound(q)'
    BY SoundKept
  <1>4. QED
    BY <1>1, <1>2, <1>3, ReqMoves

-----------------------------------------------------------------------------
(* Articles and their history.  What an article says stays vouched for,    *)
(* archived or not: restoring it asks nobody.                              *)

Voucher(a, i) ==
    /\ revision[i].article = a /\ revision[i].text = article[a].text
    /\ revision[i].autoReply /\ revision[i].status = "approved"
    /\ \/ revision[i].action = "created"
       \/ revision[i].approver \notin {"none", revision[i].editor}

Vouched ==
    \A a \in Articles :
       article[a].there /\ article[a].autoReply =>
          \E i \in DOMAIN revision : Voucher(a, i)

(* The applied revision that says what the article says.                   *)
Trace(a, i) ==
    /\ revision[i].article = a /\ revision[i].status = "approved"
    /\ revision[i].text = article[a].text
    /\ revision[i].autoReply = article[a].autoReply
    /\ revision[i].kept \/ i <= aged

(* A revision the sweep under way will not take.                           *)
Safe(i) == revision[i].kept /\ (prune.running => i \in prune.keep \/ i > prune.cutoff)

Spared == \A a \in There : \E i \in DOMAIN revision : revision[i].article = a /\ Safe(i)

Histories == Vouched /\ LiveIsInTrail /\ Spared

(* What a step does to articles and history: nothing, a write recorded     *)
(* with it, a proposal, a decision, or the pruning of one revision.        *)
Records(a, row, v) ==
    /\ row.there
    /\ article' = [article EXCEPT ![a] = row]
    /\ revision' = Append(revision, v)
    /\ v.article = a /\ v.status = "approved" /\ v.kept
    /\ v.text = row.text /\ v.autoReply = row.autoReply
    /\ row.autoReply =>
          \/ v.action = "created"
          \/ article[a].there /\ article[a].autoReply /\ article[a].text = row.text
    /\ UNCHANGED <<aged, prune>>

Proposes(v) ==
    /\ revision' = Append(revision, v)
    /\ v.status = "pending"
    /\ UNCHANGED <<article, aged, prune>>

Decides(i, v) ==
    /\ revision[i].status = "pending"
    /\ revision' = [revision EXCEPT ![i] = v]
    /\ v.article = revision[i].article /\ v.action = revision[i].action
    /\ v.text = revision[i].text /\ v.autoReply = revision[i].autoReply
    /\ v.editor = revision[i].editor /\ v.kept = revision[i].kept
    /\ v.status # "pending"
    /\ \/ UNCHANGED article
       \/ /\ v.status = "approved" /\ v.kept
          /\ v.approver \notin {"none", v.editor}
          /\ article' = [article EXCEPT ![v.article].text = v.text,
                                        ![v.article].autoReply = v.autoReply]
    /\ UNCHANGED <<aged, prune>>

Prunes(i) ==
    /\ prune.running /\ i <= prune.cutoff /\ i \notin prune.keep
    /\ revision' = [revision EXCEPT ![i].kept = FALSE]
    /\ UNCHANGED <<article, aged, prune>>

LEMMA VoucherKept ==
  ASSUME BaseOK, Grows, NEW a \in Articles, article'[a].text = article[a].text,
         NEW i \in DOMAIN revision, Voucher(a, i)
  PROVE  Voucher(a, i)' /\ i \in DOMAIN revision'
  BY History DEF BaseOK, Grows, Voucher

LEMMA RecordsHistories ==
  ASSUME BaseOK, PruneOK, NEW a \in Articles, NEW row \in Article, NEW v \in Revision,
         Records(a, row, v)
  PROVE  /\ Grows /\ BaseOK' /\ PruneOK'
         /\ Histories => Histories'
  <1> DEFINE n == Len(revision) + 1
  <1>1. /\ revision' \in Seq(Revision) /\ Len(revision') = n
        /\ DOMAIN revision' = DOMAIN revision \cup {n}
        /\ \A i \in DOMAIN revision : revision'[i] = revision[i]
        /\ revision'[n] = v
    BY Appended DEF Records
  <1>2. /\ article' \in [Articles -> Article] /\ article'[a] = row
        /\ \A b \in Articles : b # a => article'[b] = article[b]
    BY DEF Records, BaseOK
  <1>3. Len(revision) \in Nat /\ aged \in 0..Len(revision)
    BY History DEF BaseOK
  <1>4. Grows
    BY <1>1, <1>2, <1>3 DEF Grows, Records
  <1>5. BaseOK' /\ PruneOK'
    BY <1>1, <1>2, <1>3 DEF BaseOK, PruneOK, Records
  <1>6. ASSUME Vouched PROVE Vouched'
    <2>1. SUFFICES ASSUME NEW b \in Articles, article'[b].there, article'[b].autoReply
                   PROVE  \E i \in DOMAIN revision' : Voucher(b, i)'
      BY DEF Vouched, Voucher
    <2>2. CASE \/ b # a
               \/ article[a].there /\ article[a].autoReply /\ article[a].text = row.text
      <3>1. /\ article[b].there /\ article[b].autoReply
            /\ article'[b].text = article[b].text
        BY <1>2, <2>1, <2>2
      <3>2. PICK i \in DOMAIN revision : Voucher(b, i)
        BY <1>6, <3>1 DEF Vouched
      <3>3. QED
        BY <1>4, <3>1, <3>2, VoucherKept
    <2>3. CASE b = a /\ v.action = "created"
      BY <1>1, <1>2, <2>1, <2>3 DEF Records, Voucher
    <2>4. QED
      BY <1>2, <2>1, <2>2, <2>3 DEF Records
  <1>7. ASSUME LiveIsInTrail PROVE LiveIsInTrail'
    <2>1. SUFFICES ASSUME NEW b \in There'
                   PROVE  \E i \in DOMAIN revision' : Trace(b, i)'
      BY DEF LiveIsInTrail, Trace
    <2>2. CASE b = a
      BY <1>1, <1>2, <2>2 DEF Records, Trace
    <2>3. CASE b # a
      <3>1. b \in There /\ article'[b] = article[b]
        BY <1>2, <2>1, <2>3 DEF There
      <3>2. PICK i \in DOMAIN revision : Trace(b, i)
        BY <1>7, <3>1 DEF LiveIsInTrail, Trace
      <3>3. QED
        BY <1>1, <3>1, <3>2 DEF Trace, Records
    <2>4. QED
      BY <2>2, <2>3
  <1>8. ASSUME Spared PROVE Spared'
    <2>1. SUFFICES ASSUME NEW b \in There'
                   PROVE  \E i \in DOMAIN revision' : revision'[i].article = b /\ Safe(i)'
      BY DEF Spared
    <2>2. CASE b = a
      <3>1. prune.cutoff \in Nat /\ n > prune.cutoff
        BY <1>3 DEF PruneOK
      <3>2. QED
        BY <1>1, <2>2, <3>1 DEF Records, Safe
    <2>3. CASE b # a
      <3>1. b \in There
        BY <1>2, <2>1, <2>3 DEF There
      <3>2. PICK i \in DOMAIN revision : revision[i].article = b /\ Safe(i)
        BY <1>8, <3>1 DEF Spared
      <3>3. QED
        BY <1>1, <3>2 DEF Safe, Records
    <2>4. QED
      BY <2>2, <2>3
  <1>9. QED
    BY <1>4, <1>5, <1>6, <1>7, <1>8 DEF Histories

LEMMA ProposesHistories ==
  ASSUME BaseOK, PruneOK, NEW v \in Revision, Proposes(v)
  PROVE  /\ Grows /\ BaseOK' /\ PruneOK'
         /\ Histories => Histories'
  <1>1. /\ revision' \in Seq(Revision) /\ Len(revision') = Len(revision) + 1
        /\ DOMAIN revision \subseteq DOMAIN revision'
        /\ \A i \in DOMAIN revision : revision'[i] = revision[i]
    BY Appended DEF Proposes
  <1>2. Len(revision) \in Nat /\ aged \in 0..Len(revision)
    BY History DEF BaseOK
  <1>3. Grows
    BY <1>1, <1>2 DEF Grows, Proposes, BaseOK
  <1>4. BaseOK' /\ PruneOK'
    BY <1>1, <1>2 DEF BaseOK, PruneOK, Proposes
  <1>5. ASSUME Vouched PROVE Vouched'
    BY <1>1, <1>5 DEF Vouched, Voucher, Proposes
  <1>6. ASSUME LiveIsInTrail PROVE LiveIsInTrail'
    BY <1>1, <1>6 DEF LiveIsInTrail, Proposes, There
  <1>7. ASSUME Spared PROVE Spared'
    BY <1>1, <1>7 DEF Spared, Safe, Proposes, There
  <1>8. QED
    BY <1>3, <1>4, <1>5, <1>6, <1>7 DEF Histories

LEMMA DecidesHistories ==
  ASSUME BaseOK, PruneOK, NEW i \in DOMAIN revision, NEW v \in Revision, Decides(i, v)
  PROVE  /\ Grows /\ BaseOK' /\ PruneOK'
         /\ Histories => Histories'
  <1> DEFINE x == v.article
  <1>1. /\ revision' \in Seq(Revision) /\ Len(revision') = Len(revision)
        /\ DOMAIN revision' = DOMAIN revision
        /\ revision'[i] = v
        /\ \A j \in DOMAIN revision : j # i => revision'[j] = revision[j]
    BY Replaced DEF Decides
  <1>2. x \in Articles /\ v.text \in Text /\ v.autoReply \in BOOLEAN
    BY DEF Revision
  <1>3. CASE UNCHANGED article
    <2>1. Grows
      BY <1>1, <1>3, History DEF Grows, Decides, BaseOK
    <2>2. BaseOK' /\ PruneOK'
      BY <1>1, <1>3 DEF BaseOK, PruneOK, Decides
    <2>3. ASSUME Vouched PROVE Vouched'
      BY <1>1, <1>3, <2>3 DEF Vouched, Voucher, Decides
    <2>4. ASSUME LiveIsInTrail PROVE LiveIsInTrail'
      BY <1>1, <1>3, <2>4 DEF LiveIsInTrail, Decides, There
    <2>5. ASSUME Spared PROVE Spared'
      BY <1>1, <1>3, <2>5 DEF Spared, Safe, Decides, There
    <2>6. QED
      BY <2>1, <2>2, <2>3, <2>4, <2>5 DEF Histories
  <1>4. CASE /\ v.status = "approved" /\ v.kept
             /\ v.approver \notin {"none", v.editor}
             /\ article' = [article EXCEPT ![x].text = v.text,
                                           ![x].autoReply = v.autoReply]
    <2>1. /\ article' \in [Articles -> Article]
          /\ article'[x].text = v.text /\ article'[x].autoReply = v.autoReply
          /\ \A b \in Articles : /\ b # x => article'[b] = article[b]
                                 /\ article'[b].there = article[b].there
      BY <1>2, <1>4 DEF BaseOK, Article
    <2>2. Grows
      BY <1>1, <2>1, History DEF Grows, Decides, BaseOK
    <2>3. BaseOK' /\ PruneOK'
      BY <1>1, <2>1 DEF BaseOK, PruneOK, Decides
    <2>4. ASSUME Vouched PROVE Vouched'
      <3>1. SUFFICES ASSUME NEW b \in Articles, article'[b].there, article'[b].autoReply
                     PROVE  \E j \in DOMAIN revision' : Voucher(b, j)'
        BY DEF Vouched, Voucher
      <3>2. CASE b = x
        BY <1>1, <1>4, <2>1, <3>1, <3>2 DEF Voucher
      <3>3. CASE b # x
        <4>1. article'[b] = article[b]
          BY <2>1, <3>3
        <4>2. PICK j \in DOMAIN revision : Voucher(b, j)
          BY <2>4, <3>1, <4>1 DEF Vouched
        <4>3. QED
          BY <2>2, <4>1, <4>2, VoucherKept
      <3>4. QED
        BY <3>2, <3>3
    <2>5. ASSUME LiveIsInTrail PROVE LiveIsInTrail'
      <3>1. SUFFICES ASSUME NEW b \in There'
                     PROVE  \E j \in DOMAIN revision' : Trace(b, j)'
        BY DEF LiveIsInTrail, Trace
      <3>2. CASE b = x
        BY <1>1, <1>4, <2>1, <3>2 DEF Trace
      <3>3. CASE b # x
        <4>1. b \in There /\ article'[b] = article[b]
          BY <2>1, <3>1, <3>3 DEF There
        <4>2. PICK j \in DOMAIN revision : Trace(b, j)
          BY <2>5, <4>1 DEF LiveIsInTrail, Trace
        <4>3. j # i
          BY <4>2 DEF Trace, Decides
        <4>4. QED
          BY <1>1, <4>1, <4>2, <4>3 DEF Trace, Decides
      <3>4. QED
        BY <3>2, <3>3
    <2>6. ASSUME Spared PROVE Spared'
      BY <1>1, <2>1, <2>6 DEF Spared, Safe, Decides, There
    <2>7. QED
      BY <2>2, <2>3, <2>4, <2>5, <2>6 DEF Histories
  <1>5. QED
    BY <1>3, <1>4 DEF Decides

LEMMA PrunesHistories ==
  ASSUME BaseOK, PruneOK, NEW i \in DOMAIN revision, Prunes(i)
  PROVE  /\ Grows /\ BaseOK' /\ PruneOK'
         /\ Histories => Histories'
  <1>1. PICK v : v = [revision[i] EXCEPT !.kept = FALSE]
    OBVIOUS
  <1>2. revision[i] \in Revision
    BY History DEF BaseOK
  <1>3. /\ v \in Revision /\ ~v.kept
        /\ v.article = revision[i].article /\ v.action = revision[i].action
        /\ v.text = revision[i].text /\ v.autoReply = revision[i].autoReply
        /\ v.editor = revision[i].editor /\ v.status = revision[i].status
        /\ v.approver = revision[i].approver
    BY <1>1, <1>2 DEF Revision
  <1>4. revision' = [revision EXCEPT ![i] = v]
    BY <1>1 DEF Prunes
  <1>5. /\ revision' \in Seq(Revision) /\ Len(revision') = Len(revision)
        /\ DOMAIN revision' = DOMAIN revision
        /\ revision'[i] = v
        /\ \A j \in DOMAIN revision : j # i => revision'[j] = revision[j]
    BY <1>3, <1>4, Replaced
  <1>6. i <= aged
    BY History DEF Prunes, PruneOK, BaseOK
  <1>7. Grows
    BY <1>3, <1>5, History DEF Grows, Prunes, BaseOK
  <1>8. BaseOK' /\ PruneOK'
    BY <1>5 DEF BaseOK, PruneOK, Prunes
  <1>9. ASSUME Vouched PROVE Vouched'
    BY <1>3, <1>5, <1>9 DEF Vouched, Voucher, Prunes
  <1>10. ASSUME LiveIsInTrail PROVE LiveIsInTrail'
    BY <1>3, <1>5, <1>6, <1>10 DEF LiveIsInTrail, Prunes, There
  <1>11. ASSUME Spared PROVE Spared'
    <2>1. SUFFICES ASSUME NEW b \in There
                   PROVE  \E j \in DOMAIN revision : revision'[j].article = b /\ Safe(j)'
      BY <1>5 DEF Spared, There, Prunes
    <2>2. PICK j \in DOMAIN revision : revision[j].article = b /\ Safe(j)
      BY <1>11 DEF Spared
    <2>3. j # i
      BY <2>2, History DEF Safe, Prunes, PruneOK, BaseOK
    <2>4. QED
      BY <1>5, <2>2, <2>3 DEF Safe, Prunes
  <1>12. QED
    BY <1>7, <1>8, <1>9, <1>10, <1>11 DEF Histories

(* Steps that leave articles and history alone.                            *)
Stays == UNCHANGED <<article, revision>>

LEMMA StaysGrows ==
  ASSUME BaseOK, Stays
  PROVE  Grows
  BY History DEF BaseOK, Stays, Grows

LEMMA StaysHistories ==
  ASSUME BaseOK, PruneOK, Stays, UNCHANGED <<aged, prune>>
  PROVE  /\ Grows /\ BaseOK' /\ PruneOK'
         /\ Histories => Histories'
  BY StaysGrows
  DEF BaseOK, PruneOK, Stays, Histories, Vouched, Voucher, LiveIsInTrail, Spared,
      Safe, There

(* Some revision of a finite history is the latest of those in question.   *)
LEMMA LatestExists ==
  ASSUME NEW n \in Nat, NEW S \in SUBSET (1..n), S # {}
  PROVE  \E m \in S : \A i \in S : i <= m
  <1> DEFINE below == StrictSubsetOrdering(Nat)
             finite == FiniteSubsetsOf(Nat)
             T == {m..n : m \in S}
  <1>1. IsWellFoundedOn(below, finite)
    BY FS_StrictSubsetOrderingWellFounded
  <1>2. T \subseteq finite
    BY FS_Interval DEF FiniteSubsetsOf
  <1>3. T # {}
    OBVIOUS
  <1>4. PICK x \in T : \A y \in T : ~ (<<y, x>> \in below)
    <2> HIDE DEF T, below, finite
    <2>1. QED
      BY <1>1, <1>2, <1>3, WFMin
  <1>5. PICK m \in S : x = m..n
    BY <1>4
  <1>6. ASSUME NEW i \in S, i > m
        PROVE  FALSE
    <2>1. i..n \subseteq m..n /\ i..n # m..n
      <3>1. m \in m..n /\ m \notin i..n
        BY <1>6
      <3>2. QED
        BY <1>6, <3>1
    <2>2. <<i..n, m..n>> \in below
      BY <2>1 DEF StrictSubsetOrdering
    <2>3. QED
      BY <1>4, <1>5, <2>2
  <1>7. QED
    BY <1>6

LEMMA SweepHistories ==
  ASSUME BaseOK, PruneOK, Stays, YearPasses \/ PruneStarts \/ PruneEnds
  PROVE  /\ Grows /\ BaseOK' /\ PruneOK'
         /\ Histories => Histories'
  <1>1. Grows
    BY StaysGrows
  <1>2. Len(revision) \in Nat /\ aged \in 0..Len(revision)
        /\ DOMAIN revision = 1..Len(revision)
    BY History DEF BaseOK
  <1>3. aged' \in aged..Len(revision)
    BY <1>2 DEF YearPasses, PruneStarts, PruneEnds
  <1>4. BaseOK'
    BY <1>2, <1>3 DEF BaseOK, Stays
  <1>5. PruneOK'
    <2>1. CASE YearPasses
      <3>1. 0..aged \subseteq 0..aged'
        BY <1>2, <1>3
      <3>2. QED
        BY <2>1, <3>1 DEF YearPasses, PruneOK
    <2>2. CASE PruneStarts
      <3>1. Latest \subseteq DOMAIN revision
        BY DEF Latest
      <3>2. QED
        BY <1>2, <2>2, <3>1 DEF PruneStarts, PruneOK
    <2>3. CASE PruneEnds
      BY <1>2, <2>3 DEF PruneEnds, PruneOK, NotRunning
    <2>4. QED
      BY <2>1, <2>2, <2>3
  <1>6. Vouched => Vouched'
    BY DEF Vouched, Voucher, Stays
  <1>7. LiveIsInTrail => LiveIsInTrail'
    BY <1>2, <1>3 DEF LiveIsInTrail, Stays, There
  <1>8. ASSUME Spared PROVE Spared'
    <2>1. CASE YearPasses
      BY <1>8, <2>1 DEF YearPasses, Spared, Safe, There
    <2>2. CASE PruneEnds
      BY <1>8, <2>2 DEF PruneEnds, Spared, Safe, There, NotRunning
    <2>3. CASE PruneStarts
      <3>1. SUFFICES ASSUME NEW a \in There
                     PROVE  \E i \in DOMAIN revision : revision[i].article = a /\ Safe(i)'
        BY DEF Spared, Stays, There
      <3>2. PICK S : S = {i \in DOMAIN revision : revision[i].article = a /\ revision[i].kept}
        OBVIOUS
      <3>3. S \in SUBSET (1..Len(revision)) /\ S # {}
        BY <1>2, <1>8, <3>2 DEF Spared, Safe
      <3>4. PICK m \in S : \A i \in S : i <= m
        BY <1>2, <3>3, LatestExists
      <3>5. m \in Latest
        BY <3>2, <3>4 DEF Latest
      <3>6. QED
        BY <2>3, <3>2, <3>5 DEF PruneStarts, Safe
    <2>4. QED
      BY <2>1, <2>2, <2>3
  <1>9. QED
    BY <1>1, <1>4, <1>5, <1>6, <1>7, <1>8 DEF Histories

-----------------------------------------------------------------------------
(* The review queue.                                                       *)

LEMMA PendingShrinks ==
  ASSUME BaseOK,
         \/ Stays
         \/ \E a \in Articles, row \in Article, v \in Revision : Records(a, row, v)
         \/ \E i \in DOMAIN revision, v \in Revision : Decides(i, v)
         \/ \E i \in DOMAIN revision : Prunes(i)
  PROVE  \A a \in Articles : Pending(a)' \subseteq Pending(a)
  <1>1. CASE Stays
    BY <1>1 DEF Stays, Pending
  <1>2. CASE \E a \in Articles, row \in Article, v \in Revision : Records(a, row, v)
    <2>1. PICK v \in Revision : revision' = Append(revision, v) /\ v.status = "approved"
      BY <1>2 DEF Records
    <2>2. QED
      BY <2>1, Appended DEF Pending
  <1>3. CASE \E i \in DOMAIN revision, v \in Revision : Decides(i, v)
    <2>1. PICK i \in DOMAIN revision, v \in Revision : Decides(i, v)
      BY <1>3
    <2>2. /\ DOMAIN revision' = DOMAIN revision /\ revision'[i] = v
          /\ \A j \in DOMAIN revision : j # i => revision'[j] = revision[j]
      BY <2>1, Replaced DEF Decides
    <2>3. QED
      BY <2>1, <2>2 DEF Decides, Pending
  <1>4. CASE \E i \in DOMAIN revision : Prunes(i)
    <2>1. PICK i \in DOMAIN revision : Prunes(i)
      BY <1>4
    <2>2. PICK v : v = [revision[i] EXCEPT !.kept = FALSE]
      OBVIOUS
    <2>3. v \in Revision /\ ~v.kept
      <3>1. revision[i] \in Revision
        BY History DEF BaseOK
      <3>2. QED
        BY <2>2, <3>1 DEF Revision
    <2>4. revision' = [revision EXCEPT ![i] = v]
      BY <2>1, <2>2 DEF Prunes
    <2>5. /\ DOMAIN revision' = DOMAIN revision /\ revision'[i] = v
          /\ \A j \in DOMAIN revision : j # i => revision'[j] = revision[j]
      BY <2>3, <2>4, Replaced
    <2>6. QED
      BY <2>3, <2>5 DEF Pending
  <1>5. QED
    BY <1>1, <1>2, <1>3, <1>4

LEMMA QueueFinite ==
  ASSUME BaseOK, NEW a
  PROVE  /\ IsFiniteSet(Pending(a)) /\ Cardinality(Pending(a)) \in Nat
         /\ IsFiniteSet(Proposers(a)) /\ Cardinality(Proposers(a)) \in Nat
         /\ Cardinality(Proposers(a)) <= Cardinality(Requests)
         /\ Cardinality(Requests) \in Nat
  <1>1. IsFiniteSet(DOMAIN revision)
    BY History, FS_Interval DEF BaseOK
  <1>2. Pending(a) \subseteq DOMAIN revision /\ Proposers(a) \subseteq Requests
    BY DEF Pending, Proposers
  <1>3. QED
    BY <1>1, <1>2, KnowledgeAssumption, FS_Subset, FS_CardinalityType

LEMMA QueueShrinks ==
  ASSUME BaseOK, BaseOK', QueueIsBounded,
         \A a \in Articles : /\ Pending(a)' \subseteq Pending(a)
                            /\ Proposers(a)' \subseteq Proposers(a)
  PROVE  QueueIsBounded'
  <1>1. SUFFICES ASSUME NEW a \in Articles
                 PROVE  Cardinality(Pending(a)') + Cardinality(Proposers(a)')
                          <= Cardinality(Requests)
    BY DEF QueueIsBounded, Proposers
  <1>2. \A S, T : IsFiniteSet(S) /\ T \subseteq S =>
           Cardinality(T) \in Nat /\ Cardinality(T) <= Cardinality(S)
    BY FS_Subset, FS_CardinalityType
  <1>3. /\ Cardinality(Pending(a)') <= Cardinality(Pending(a))
        /\ Cardinality(Proposers(a)') <= Cardinality(Proposers(a))
        /\ Cardinality(Pending(a)') \in Nat /\ Cardinality(Proposers(a)') \in Nat
    BY <1>2, QueueFinite
  <1>4. Cardinality(Pending(a)) + Cardinality(Proposers(a)) <= Cardinality(Requests)
    BY DEF QueueIsBounded, Proposers
  <1>5. QED
    BY <1>3, <1>4, QueueFinite

(* The check found nothing pending: whoever proposes is a request.         *)
LEMMA QueueChecked ==
  ASSUME BaseOK, BaseOK', QueueIsBounded, NEW a \in Articles, Pending(a) = {}, Stays,
         \A b \in Articles : b # a => Proposers(b)' \subseteq Proposers(b)
  PROVE  QueueIsBounded'
  <1>1. SUFFICES ASSUME NEW b \in Articles
                 PROVE  Cardinality(Pending(b)') + Cardinality(Proposers(b)')
                          <= Cardinality(Requests)
    BY DEF QueueIsBounded, Proposers
  <1>2. \A c \in Articles : Pending(c)' = Pending(c)
    BY DEF Stays, Pending
  <1>3. CASE b = a
    <2>1. Pending(b)' = {} /\ Cardinality({}) = 0
      BY <1>2, <1>3, FS_EmptySet
    <2>2. Proposers(b)' \subseteq Requests
      BY DEF Proposers
    <2>3. /\ Cardinality(Proposers(b)') \in Nat /\ Cardinality(Requests) \in Nat
          /\ Cardinality(Proposers(b)') <= Cardinality(Requests)
      BY <2>2, KnowledgeAssumption, FS_Subset, FS_CardinalityType
    <2>4. QED
      BY <2>1, <2>3
  <1>4. CASE b # a
    <2>1. \A S, T : IsFiniteSet(S) /\ T \subseteq S =>
             Cardinality(T) \in Nat /\ Cardinality(T) <= Cardinality(S)
      BY FS_Subset, FS_CardinalityType
    <2>2. /\ Cardinality(Proposers(b)') <= Cardinality(Proposers(b))
          /\ Cardinality(Proposers(b)') \in Nat
      BY <1>4, <2>1, QueueFinite
    <2>3. Cardinality(Pending(b)) + Cardinality(Proposers(b)) <= Cardinality(Requests)
      BY DEF QueueIsBounded, Proposers
    <2>4. QED
      BY <1>2, <2>2, <2>3, QueueFinite
  <1>5. QED
    BY <1>3, <1>4

(* A proposal takes the place of the request that made it.                 *)
LEMMA QueueProposed ==
  ASSUME BaseOK, BaseOK', QueueIsBounded, NEW v \in Revision, Proposes(v),
         NEW r \in Requests, r \in Proposers(v.article),
         \A b \in Articles : Proposers(b)' \subseteq Proposers(b) \ {r}
  PROVE  QueueIsBounded'
  <1> DEFINE n == Len(revision) + 1
  <1>1. SUFFICES ASSUME NEW b \in Articles
                 PROVE  Cardinality(Pending(b)') + Cardinality(Proposers(b)')
                          <= Cardinality(Requests)
    BY DEF QueueIsBounded, Proposers
  <1>2. Cardinality(Pending(b)) + Cardinality(Proposers(b)) <= Cardinality(Requests)
    BY DEF QueueIsBounded, Proposers
  <1>3. /\ DOMAIN revision' = DOMAIN revision \cup {n} /\ revision'[n] = v
        /\ \A i \in DOMAIN revision : revision'[i] = revision[i]
    BY Appended DEF Proposes
  <1>4. \A S, T : IsFiniteSet(S) /\ T \subseteq S =>
           Cardinality(T) \in Nat /\ Cardinality(T) <= Cardinality(S)
    BY FS_Subset, FS_CardinalityType
  <1>5. CASE b = v.article
    <2>1. Pending(b)' \subseteq Pending(b) \cup {n}
      BY <1>3 DEF Pending
    <2>2. /\ IsFiniteSet(Pending(b) \cup {n})
          /\ \/ Cardinality(Pending(b) \cup {n}) = Cardinality(Pending(b))
             \/ Cardinality(Pending(b) \cup {n}) = Cardinality(Pending(b)) + 1
      BY QueueFinite, FS_AddElement
    <2>3. /\ IsFiniteSet(Proposers(b) \ {r})
          /\ Cardinality(Proposers(b) \ {r}) = Cardinality(Proposers(b)) - 1
      BY <1>5, QueueFinite, FS_RemoveElement
    <2>4. /\ Cardinality(Pending(b)') \in Nat /\ Cardinality(Proposers(b)') \in Nat
          /\ Cardinality(Pending(b)') <= Cardinality(Pending(b) \cup {n})
          /\ Cardinality(Proposers(b)') <= Cardinality(Proposers(b) \ {r})
      BY <1>4, <2>1, <2>2, <2>3
    <2>5. QED
      BY <1>2, <2>2, <2>3, <2>4, QueueFinite
  <1>6. CASE b # v.article
    <2>1. Pending(b)' \subseteq Pending(b) /\ Proposers(b)' \subseteq Proposers(b)
      BY <1>3, <1>6 DEF Pending
    <2>2. /\ Cardinality(Pending(b)') \in Nat /\ Cardinality(Proposers(b)') \in Nat
          /\ Cardinality(Pending(b)') <= Cardinality(Pending(b))
          /\ Cardinality(Proposers(b)') <= Cardinality(Proposers(b))
      BY <1>4, <2>1, QueueFinite
    <2>3. QED
      BY <1>2, <2>2, QueueFinite
  <1>7. QED
    BY <1>5, <1>6

-----------------------------------------------------------------------------
(* The inductive invariant, by the groups of actions.                      *)

KnowledgeInductive ==
    /\ BaseOK /\ PruneOK /\ ReqOK
    /\ RequestsSound
    /\ Histories
    /\ QueueIsBounded

(* What is left to show of a step once its data and its request are seen.  *)
LEMMA Settled ==
  ASSUME KnowledgeInductive, Grows, BaseOK', PruneOK', Histories => Histories',
         ReqOK', RequestsSound', QueueIsBounded'
  PROVE  KnowledgeInductive'
  BY DEF KnowledgeInductive

AsksNext ==
    \E r \in Requests, u \in Admins :
       \/ \E flag \in BOOLEAN : AsksToCreate(r, u, flag)
       \/ \E a \in There, flag \in BOOLEAN :
            AsksToEdit(r, u, a, flag) \/ AsksToArchive(r, u, a, flag)
       \/ \E i \in DOMAIN revision : AsksToApprove(r, u, i) \/ AsksToReject(r, u, i)

(* A request that is let in is sound.                                      *)
LEMMA AskedSoundly ==
  ASSUME KnowledgeInductive, AsksNext
  PROVE  \E r \in Requests, q \in Req :
            LetIn(r, q) /\ Sound(q) /\ q.step # "propose"
  <1>1. PICK r \in Requests, u \in Admins :
           \/ \E flag \in BOOLEAN : AsksToCreate(r, u, flag)
           \/ \E a \in There, flag \in BOOLEAN :
                AsksToEdit(r, u, a, flag) \/ AsksToArchive(r, u, a, flag)
           \/ \E i \in DOMAIN revision : AsksToApprove(r, u, i) \/ AsksToReject(r, u, i)
    BY DEF AsksNext
  <1>2. asked \in 0..MaxAsked /\ MaxAsked \in Nat /\ There \subseteq Articles
    BY KnowledgeAssumption DEF KnowledgeInductive, ReqOK, There
  <1>3. asked < MaxAsked => Fresh \in Text
    BY <1>2 DEF Fresh, Text
  <1>4. 1 \in Text
    BY <1>2 DEF Text
  <1>5. ASSUME NEW flag \in BOOLEAN, AsksToCreate(r, u, flag)
        PROVE  \E q \in Req : LetIn(r, q) /\ Sound(q) /\ q.step # "propose"
    <2>1. PICK q : q = [NoReq EXCEPT !.step = "nextId", !.by = u, !.text = Fresh,
                                     !.flag = flag]
      OBVIOUS
    <2>2. LetIn(r, q)
      BY <1>5, <2>1 DEF AsksToCreate
    <2>3. Fresh \in Text
      BY <1>3, <2>2 DEF LetIn
    <2>4. q \in Req /\ q.step = "nextId" /\ q.by = u
      BY <2>1, <2>3 DEF NoReq, Req
    <2>5. QED
      BY <2>2, <2>4 DEF Sound, Placed
  <1>6. ASSUME NEW a \in There, NEW flag \in BOOLEAN, AsksToEdit(r, u, a, flag)
        PROVE  \E q \in Req : LetIn(r, q) /\ Sound(q) /\ q.step # "propose"
    <2>1. PICK q : q = [NoReq EXCEPT !.step = "readEdit", !.by = u, !.article = a,
                                     !.text = Fresh, !.flag = flag]
      OBVIOUS
    <2>2. LetIn(r, q)
      BY <1>6, <2>1 DEF AsksToEdit
    <2>3. Fresh \in Text /\ a \in Articles
      BY <1>2, <1>3, <2>2 DEF LetIn
    <2>4. q \in Req /\ q.step = "readEdit" /\ q.by = u /\ q.article = a
      BY <2>1, <2>3 DEF NoReq, Req
    <2>5. QED
      BY <2>2, <2>3, <2>4 DEF Sound, Placed, There
  <1>7. ASSUME NEW a \in There, NEW flag \in BOOLEAN, AsksToArchive(r, u, a, flag)
        PROVE  \E q \in Req : LetIn(r, q) /\ Sound(q) /\ q.step # "propose"
    <2>1. PICK q : q = [NoReq EXCEPT !.step = "readArchive", !.by = u, !.article = a,
                                     !.flag = flag]
      OBVIOUS
    <2>2. LetIn(r, q)
      BY <1>7, <2>1 DEF AsksToArchive
    <2>3. a \in Articles
      BY <1>2
    <2>4. q \in Req /\ q.step = "readArchive" /\ q.by = u /\ q.article = a
      BY <1>4, <2>1, <2>3 DEF NoReq, Req
    <2>5. QED
      BY <2>2, <2>3, <2>4 DEF Sound, Placed, There
  <1>8. ASSUME NEW i \in DOMAIN revision,
               AsksToApprove(r, u, i) \/ AsksToReject(r, u, i)
        PROVE  \E q \in Req : LetIn(r, q) /\ Sound(q) /\ q.step # "propose"
    <2>1. PICK step \in {"approve", "reject"} :
             /\ LetIn(r, [NoReq EXCEPT !.step = step, !.by = u, !.revision = i])
             /\ step = "approve" => revision[i].editor # u
      BY <1>8 DEF AsksToApprove, AsksToReject
    <2>2. PICK q : q = [NoReq EXCEPT !.step = step, !.by = u, !.revision = i]
      OBVIOUS
    <2>3. i \in Nat
      BY History DEF KnowledgeInductive, BaseOK
    <2>4. q \in Req /\ q.step = step /\ q.by = u /\ q.revision = i
      BY <1>4, <2>2, <2>3 DEF NoReq, Req
    <2>5. QED
      BY <2>1, <2>2, <2>4 DEF Sound, Placed
  <1>9. QED
    BY <1>1, <1>5, <1>6, <1>7, <1>8

LEMMA AskInductive ==
  ASSUME KnowledgeInductive, AsksNext
  PROVE  KnowledgeInductive' /\ Grows
  <1>1. PICK r \in Requests, q \in Req : LetIn(r, q) /\ Sound(q) /\ q.step # "propose"
    BY AskedSoundly
  <1>2. Stays /\ UNCHANGED <<aged, prune>>
    BY <1>1 DEF LetIn, Stays
  <1>3. Grows /\ BaseOK' /\ PruneOK' /\ (Histories => Histories')
    BY <1>2, StaysHistories DEF KnowledgeInductive
  <1>4. /\ ReqOK' /\ RequestsSound'
        /\ \A a \in Articles : Proposers(a)' \subseteq Proposers(a)
    BY <1>1, <1>3, LetInMoves DEF KnowledgeInductive
  <1>5. QueueIsBounded'
    BY <1>2, <1>3, <1>4, PendingShrinks, QueueShrinks DEF KnowledgeInductive
  <1>6. QED
    BY <1>3, <1>4, <1>5, Settled

SweepNext == YearPasses \/ PruneStarts \/ PruneDeletes \/ PruneEnds

LEMMA SweepInductive ==
  ASSUME KnowledgeInductive, SweepNext
  PROVE  KnowledgeInductive' /\ Grows
  <1>1. UNCHANGED <<article, req, asked>>
    BY DEF SweepNext, YearPasses, PruneStarts, PruneDeletes, PruneEnds
  <1>2. /\ Grows /\ BaseOK' /\ PruneOK' /\ (Histories => Histories')
        /\ \A a \in Articles : Pending(a)' \subseteq Pending(a)
    <2>1. CASE PruneDeletes
      <3>1. PICK i \in 1..prune.cutoff :
               /\ prune.running /\ i \notin prune.keep
               /\ revision' = [revision EXCEPT ![i].kept = FALSE]
        BY <2>1 DEF PruneDeletes
      <3>2. i \in DOMAIN revision /\ i <= prune.cutoff
        BY <3>1, History DEF KnowledgeInductive, BaseOK, PruneOK
      <3>3. Prunes(i)
        BY <2>1, <3>1, <3>2 DEF Prunes, PruneDeletes
      <3>4. QED
        BY <3>2, <3>3, PrunesHistories, PendingShrinks DEF KnowledgeInductive
    <2>2. CASE YearPasses \/ PruneStarts \/ PruneEnds
      <3>1. Stays
        BY <2>2 DEF YearPasses, PruneStarts, PruneEnds, Stays
      <3>2. QED
        BY <2>2, <3>1, SweepHistories, PendingShrinks DEF KnowledgeInductive
    <2>3. QED
      BY <2>1, <2>2 DEF SweepNext
  <1>3. ReqOK'
    BY <1>1 DEF KnowledgeInductive, ReqOK
  <1>4. RequestsSound'
    <2>1. SUFFICES ASSUME NEW r \in Requests
                   PROVE  Sound(req[r])'
      BY DEF RequestsSound
    <2>2. PICK q : q = req[r]
      OBVIOUS
    <2>3. Sound(q)'
      BY <1>2, <2>2, SoundKept DEF KnowledgeInductive, RequestsSound
    <2>4. QED
      BY <1>1, <2>2, <2>3 DEF Sound
  <1>5. \A a \in Articles : Proposers(a)' \subseteq Proposers(a)
    BY <1>1 DEF Proposers
  <1>6. QueueIsBounded'
    BY <1>2, <1>5, QueueShrinks DEF KnowledgeInductive
  <1>7. QED
    BY <1>2, <1>3, <1>4, <1>6, Settled

(* A step of a request that only reads: it is answered, or goes on.        *)
LEMMA AnsweredInductive ==
  ASSUME KnowledgeInductive, Grows, BaseOK', PruneOK', Histories => Histories',
         NEW r \in Requests, Answer(r), UNCHANGED asked,
         \A a \in Articles : Pending(a)' \subseteq Pending(a)
  PROVE  KnowledgeInductive'
  <1>1. /\ ReqOK' /\ RequestsSound'
        /\ \A a \in Articles : Proposers(a)' \subseteq Proposers(a)
    BY AnswerMoves DEF KnowledgeInductive
  <1>2. QueueIsBounded'
    BY <1>1, QueueShrinks DEF KnowledgeInductive
  <1>3. QED
    BY <1>1, <1>2, Settled

LEMMA ReadInductive ==
  ASSUME KnowledgeInductive, NEW r \in Requests,
         ReadEdit(r) \/ CheckPending(r) \/ ReadArchive(r) \/ NextId(r)
  PROVE  KnowledgeInductive' /\ Grows
  <1>1. Stays /\ UNCHANGED <<aged, prune, asked>>
    BY DEF ReadEdit, CheckPending, ReadArchive, NextId, Stays
  <1>2. /\ Grows /\ BaseOK' /\ PruneOK' /\ (Histories => Histories')
        /\ \A a \in Articles : Pending(a)' \subseteq Pending(a)
    BY <1>1, StaysHistories, PendingShrinks DEF KnowledgeInductive
  <1>3. CASE Answer(r)
    BY <1>1, <1>2, <1>3, AnsweredInductive
  <1>4. ASSUME NEW step \in {"checkPending", "edit", "archive"}, GoOn(r, step),
               req[r].step \in Placed, step = "edit" => ~req[r].flag
        PROVE  KnowledgeInductive'
    <2>1. /\ ReqOK' /\ RequestsSound'
          /\ \A a \in Articles : Proposers(a)' \subseteq Proposers(a)
      BY <1>1, <1>2, <1>4, GoOnMoves DEF KnowledgeInductive
    <2>2. QueueIsBounded'
      BY <1>2, <2>1, QueueShrinks DEF KnowledgeInductive
    <2>3. QED
      BY <1>2, <2>1, <2>2, Settled
  <1>5. CASE ReadEdit(r) \/ ReadArchive(r)
    BY <1>2, <1>3, <1>4, <1>5
    DEF ReadEdit, ReadArchive, needsApproval, Placed, KnowledgeInductive, ReqOK, Req
  <1>6. CASE CheckPending(r) /\ GoOn(r, "propose") /\ Pending(req[r].article) = {}
    <2>1. req[r].step = "checkPending" /\ req[r].step \in Placed
      BY <1>6 DEF CheckPending, Placed
    <2>2. /\ ReqOK' /\ RequestsSound'
          /\ req' = [req EXCEPT ![r] = [req[r] EXCEPT !.step = "propose"]]
          /\ [req[r] EXCEPT !.step = "propose"].article = req[r].article
      BY <1>1, <1>2, <1>6, <2>1, GoOnMoves DEF KnowledgeInductive
    <2>3. req[r].article \in Articles
      BY <2>1 DEF KnowledgeInductive, RequestsSound, Sound
    <2>4. \A b \in Articles : b # req[r].article => Proposers(b)' \subseteq Proposers(b)
      BY <2>2 DEF Proposers, KnowledgeInductive, ReqOK
    <2>5. QueueIsBounded'
      BY <1>1, <1>2, <1>6, <2>3, <2>4, QueueChecked DEF KnowledgeInductive
    <2>6. QED
      BY <1>2, <2>2, <2>5, Settled
  <1>7. CASE NextId(r) /\ ~Answer(r)
    <2>1. PICK a \in Articles : req' = [req EXCEPT ![r].step = "create", ![r].article = a]
      BY <1>7 DEF NextId
    <2>2. PICK x \in Req : x = [req[r] EXCEPT !.step = "create", !.article = a]
      BY DEF KnowledgeInductive, ReqOK, Req
    <2>3. req' = [req EXCEPT ![r] = x]
      BY <2>1, <2>2 DEF KnowledgeInductive, ReqOK, Req
    <2>4. x.step = "create" /\ x.article = a /\ x.by \in Admins
      BY <1>7, <2>2 DEF KnowledgeInductive, ReqOK, Req, RequestsSound, Sound, NextId
    <2>5. Sound(x)'
      BY <2>4 DEF Sound, Placed
    <2>6. /\ ReqOK' /\ RequestsSound'
          /\ \A b \in Articles : Proposers(b)' \subseteq Proposers(b)
      BY <1>1, <1>2, <2>3, <2>4, <2>5, ReqMoves DEF KnowledgeInductive, ReqOK
    <2>7. QueueIsBounded'
      BY <1>2, <2>6, QueueShrinks DEF KnowledgeInductive
    <2>8. QED
      BY <1>2, <2>6, <2>7, Settled
  <1>8. QED
    BY <1>2, <1>3, <1>5, <1>6, <1>7 DEF CheckPending

LEMMA WriteInductive ==
  ASSUME KnowledgeInductive, NEW r \in Requests, Create(r) \/ Edit(r) \/ Archive(r)
  PROVE  KnowledgeInductive' /\ Grows
  <1> DEFINE a == req[r].article
  <1>1. Answer(r) /\ UNCHANGED <<aged, prune, asked>>
    BY DEF Create, Edit, Archive
  <1>2. /\ req[r] \in Req /\ req[r].by \in Admins /\ a \in Articles
        /\ article[a] \in Article
    BY DEF Create, Edit, Archive, KnowledgeInductive, BaseOK, ReqOK, RequestsSound, Sound,
           Placed
  <1>3. ASSUME NEW row \in Article, NEW v \in Revision, Records(a, row, v)
        PROVE  KnowledgeInductive' /\ Grows
    BY <1>1, <1>2, <1>3, RecordsHistories, PendingShrinks, AnsweredInductive
    DEF KnowledgeInductive
  <1>4. CASE Stays
    BY <1>1, <1>4, StaysHistories, PendingShrinks, AnsweredInductive
    DEF KnowledgeInductive
  <1>5. CASE Create(r) /\ a \notin There
    <2>1. PICK row : row = [there |-> TRUE, text |-> req[r].text, autoReply |-> req[r].flag,
                            archived |-> FALSE]
      OBVIOUS
    <2>2. PICK v : v = Applied(a, "created", row, req[r].by)
      OBVIOUS
    <2>3. row \in Article /\ v \in Revision
      BY <1>2, <2>1, <2>2 DEF Article, Revision, Applied, Req
    <2>4. Records(a, row, v)
      BY <1>5, <2>1, <2>2 DEF Records, Create, Applied
    <2>5. QED
      BY <1>3, <2>3, <2>4
  <1>6. CASE Edit(r)
    <2>1. PICK row : row = [article[a] EXCEPT !.text = req[r].text, !.autoReply = req[r].flag]
      OBVIOUS
    <2>2. PICK v : v = Applied(a, "updated", [row EXCEPT !.archived = FALSE], req[r].by)
      OBVIOUS
    <2>3. ~req[r].flag /\ article[a].there
      BY <1>6 DEF Edit, KnowledgeInductive, RequestsSound, Sound, Placed
    <2>4. /\ row \in Article /\ row.there /\ ~row.autoReply
          /\ [row EXCEPT !.archived = FALSE] \in Article
          /\ [row EXCEPT !.archived = FALSE].text = row.text
          /\ [row EXCEPT !.archived = FALSE].autoReply = row.autoReply
      BY <1>2, <2>1, <2>3 DEF Article, Req
    <2>5. v \in Revision
      BY <1>2, <2>2, <2>4 DEF Article, Revision, Applied
    <2>6. Records(a, row, v)
      BY <1>6, <2>1, <2>2, <2>4 DEF Records, Edit, Applied
    <2>7. QED
      BY <1>3, <2>4, <2>5, <2>6
  <1>7. CASE Archive(r)
    <2>1. PICK row : row = [article[a] EXCEPT !.archived = req[r].flag]
      OBVIOUS
    <2>2. PICK v : v = Applied(a, IF req[r].flag THEN "archived" ELSE "restored", row,
                               req[r].by)
      OBVIOUS
    <2>3. article[a].there
      BY <1>7 DEF Archive, KnowledgeInductive, RequestsSound, Sound, Placed
    <2>4. /\ row \in Article /\ row.there /\ row.autoReply = article[a].autoReply
          /\ row.text = article[a].text
      BY <1>2, <2>1, <2>3 DEF Article, Req
    <2>5. v \in Revision
      BY <1>2, <2>2, <2>4 DEF Article, Revision, Applied
    <2>6. Records(a, row, v)
      BY <1>7, <2>1, <2>2, <2>3, <2>4 DEF Records, Archive, Applied
    <2>7. QED
      BY <1>3, <2>4, <2>5, <2>6
  <1>8. QED
    BY <1>4, <1>5, <1>6, <1>7 DEF Create, Stays

LEMMA DecideInductive ==
  ASSUME KnowledgeInductive, NEW r \in Requests, Approve(r) \/ Reject(r)
  PROVE  KnowledgeInductive' /\ Grows
  <1> DEFINE i == req[r].revision
  <1>1. Answer(r) /\ UNCHANGED <<aged, prune, asked>>
    BY DEF Approve, Reject
  <1>2. ASSUME NEW j \in DOMAIN revision, NEW v \in Revision, Decides(j, v)
        PROVE  KnowledgeInductive' /\ Grows
    BY <1>1, <1>2, DecidesHistories, PendingShrinks, AnsweredInductive
    DEF KnowledgeInductive
  <1>3. CASE Stays
    BY <1>1, <1>3, StaysHistories, PendingShrinks, AnsweredInductive
    DEF KnowledgeInductive
  <1>4. ASSUME NEW status \in {"approved", "rejected"}, Claimable(i),
               req[r].step = IF status = "approved" THEN "approve" ELSE "reject",
               revision' = Decided(r, status),
               IF status = "approved"
               THEN article' = [article EXCEPT
                                  ![revision[i].article].text = revision[i].text,
                                  ![revision[i].article].autoReply = revision[i].autoReply]
               ELSE UNCHANGED article
        PROVE  KnowledgeInductive' /\ Grows
    <2>1. req[r].step \in {"approve", "reject"}
      BY <1>4
    <2>2. PICK v : v = [revision[i] EXCEPT !.status = status, !.approver = req[r].by]
      OBVIOUS
    <2>3. /\ i \in DOMAIN revision /\ v \in Revision
          /\ Decided(r, status) = [revision EXCEPT ![i] = v]
          /\ v.article = revision[i].article /\ v.action = revision[i].action
          /\ v.text = revision[i].text /\ v.autoReply = revision[i].autoReply
          /\ v.editor = revision[i].editor /\ v.kept = revision[i].kept
          /\ v.status = status /\ v.approver = req[r].by
      BY <2>1, <2>2, DecidedRecord, ZenonT(60) DEF KnowledgeInductive
    <2>4. /\ req[r].by \in Admins /\ req[r].by # "none"
          /\ status = "approved" => revision[i].editor # req[r].by
      BY <1>4, KnowledgeAssumption DEF KnowledgeInductive, RequestsSound, Sound
    <2>5. Decides(i, v)
      BY <1>1, <1>4, <2>3, <2>4 DEF Decides, Claimable
    <2>6. QED
      BY <1>2, <2>3, <2>5
  <1>5. CASE Approve(r)
    BY <1>3, <1>4, <1>5 DEF Approve, Stays
  <1>6. CASE Reject(r)
    BY <1>3, <1>4, <1>6 DEF Reject, Stays
  <1>7. QED
    BY <1>5, <1>6

LEMMA ProposeInductive ==
  ASSUME KnowledgeInductive, NEW r \in Requests, Propose(r)
  PROVE  KnowledgeInductive' /\ Grows
  <1>1. PICK row : row = [there |-> TRUE, text |-> req[r].text, autoReply |-> req[r].flag,
                          archived |-> FALSE]
    OBVIOUS
  <1>2. PICK v : v = [Applied(req[r].article, "updated", row, req[r].by)
                        EXCEPT !.status = "pending"]
    OBVIOUS
  <1>3. /\ req[r] \in Req /\ req[r].by \in Admins /\ req[r].article \in Articles
        /\ req[r].step = "propose"
    BY DEF Propose, KnowledgeInductive, ReqOK, RequestsSound, Sound, Placed
  <1>4. v \in Revision /\ v.status = "pending" /\ v.article = req[r].article
    BY <1>1, <1>2, <1>3 DEF Revision, Applied, Req
  <1>5. Proposes(v) /\ Answer(r) /\ UNCHANGED asked
    BY <1>1, <1>2, <1>4 DEF Proposes, Propose
  <1>6. Grows /\ BaseOK' /\ PruneOK' /\ (Histories => Histories')
    BY <1>4, <1>5, ProposesHistories DEF KnowledgeInductive
  <1>7. /\ ReqOK' /\ RequestsSound'
        /\ \A a \in Articles : Proposers(a)' \subseteq Proposers(a) \ {r}
    BY <1>5, <1>6, AnswerMoves DEF KnowledgeInductive
  <1>8. r \in Proposers(v.article)
    BY <1>3, <1>4 DEF Proposers
  <1>9. QueueIsBounded'
    BY <1>4, <1>5, <1>6, <1>7, <1>8, QueueProposed DEF KnowledgeInductive
  <1>10. QED
    BY <1>6, <1>7, <1>9, Settled

LEMMA StepInductive ==
  ASSUME KnowledgeInductive, [Next]_vars
  PROVE  KnowledgeInductive' /\ Grows
  <1>1. CASE AsksNext
    BY <1>1, AskInductive
  <1>2. CASE SweepNext
    BY <1>2, SweepInductive
  <1>3. CASE \E r \in Requests : NextId(r) \/ ReadEdit(r) \/ CheckPending(r) \/ ReadArchive(r)
    BY <1>3, ReadInductive
  <1>4. CASE \E r \in Requests : Create(r) \/ Edit(r) \/ Archive(r)
    BY <1>4, WriteInductive
  <1>5. CASE \E r \in Requests : Approve(r) \/ Reject(r)
    BY <1>5, DecideInductive
  <1>6. CASE \E r \in Requests : Propose(r)
    BY <1>6, ProposeInductive
  <1>7. CASE UNCHANGED vars
    <2>1. Stays /\ UNCHANGED <<aged, prune, req, asked>>
      BY <1>7 DEF vars, Stays
    <2>2. Grows /\ BaseOK' /\ PruneOK' /\ (Histories => Histories')
      BY <2>1, StaysHistories DEF KnowledgeInductive
    <2>3. ReqOK' /\ RequestsSound'
      BY <1>7 DEF KnowledgeInductive, ReqOK, RequestsSound, Sound, vars
    <2>4. QueueIsBounded'
      BY <1>7 DEF KnowledgeInductive, QueueIsBounded, Pending, vars
    <2>5. QED
      BY <2>2, <2>3, <2>4, Settled
  <1>8. QED
    BY <1>1, <1>2, <1>3, <1>4, <1>5, <1>6, <1>7 DEF Next, AsksNext, SweepNext

LEMMA InitInductive ==
  ASSUME Init
  PROVE  KnowledgeInductive
  <1>1. PICK flag \in BOOLEAN :
           LET imported == [there |-> TRUE, text |-> 1, autoReply |-> flag,
                            archived |-> FALSE] IN
           /\ article = [a \in Articles |-> IF a = 1 THEN imported ELSE NoArticle]
           /\ revision = <<Applied(1, "created", imported, "none")>>
           /\ req = [r \in Requests |-> NoReq] /\ aged = 0 /\ prune = NotRunning
           /\ asked = 0
    BY DEF Init
  <1>2. PICK row : row = [there |-> TRUE, text |-> 1, autoReply |-> flag,
                          archived |-> FALSE]
    OBVIOUS
  <1>3. PICK v : v = Applied(1, "created", row, "none")
    OBVIOUS
  <1>4. 1 \in Articles /\ 1 \in Text /\ MaxAsked \in Nat
    BY KnowledgeAssumption DEF Articles, Text
  <1>5. row \in Article /\ NoArticle \in Article /\ v \in Revision
    BY <1>2, <1>3, <1>4 DEF Article, NoArticle, Revision, Applied
  <1>6. revision = <<v>> /\ article = [a \in Articles |-> IF a = 1 THEN row ELSE NoArticle]
    BY <1>1, <1>2, <1>3
  <1>7. /\ revision \in Seq(Revision) /\ Len(revision) = 1 /\ DOMAIN revision = {1}
        /\ revision[1] = v
    BY <1>5, <1>6
  <1>8. BaseOK
    <2>1. article \in [Articles -> Article]
      BY <1>5, <1>6
    <2>2. aged \in 0..Len(revision)
      BY <1>1, <1>7
    <2>3. QED
      BY <1>7, <2>1, <2>2 DEF BaseOK
  <1>9. PruneOK
    BY <1>1 DEF PruneOK, NotRunning
  <1>10. NoReq \in Req /\ NoReq.step = "idle"
    BY <1>4 DEF NoReq, Req
  <1>11. ReqOK /\ RequestsSound
    BY <1>1, <1>4, <1>10 DEF ReqOK, RequestsSound, Sound, Placed
  <1>12. There = {1}
    BY <1>2, <1>4, <1>6 DEF There, NoArticle
  <1>13. Histories
    <2>1. There = {1} /\ article[1] = row /\ 1 \in DOMAIN revision
      BY <1>4, <1>6, <1>7, <1>12
    <2>2. /\ revision[1].article = 1 /\ revision[1].action = "created"
          /\ revision[1].status = "approved" /\ revision[1].kept
          /\ revision[1].text = row.text /\ revision[1].autoReply = row.autoReply
      BY <1>3, <1>7 DEF Applied
    <2>3. Vouched
      BY <2>1, <2>2 DEF Vouched, Voucher, There
    <2>4. LiveIsInTrail
      BY <2>1, <2>2 DEF LiveIsInTrail
    <2>5. Spared
      BY <1>1, <2>1, <2>2 DEF Spared, Safe, NotRunning
    <2>6. QED
      BY <2>3, <2>4, <2>5 DEF Histories
  <1>14. QueueIsBounded
    <2>1. SUFFICES ASSUME NEW a \in Articles
                   PROVE  Cardinality(Pending(a)) + Cardinality(Proposers(a))
                            <= Cardinality(Requests)
      BY DEF QueueIsBounded, Proposers
    <2>2. Pending(a) = {}
      BY <1>3, <1>7 DEF Pending, Applied
    <2>3. Proposers(a) = {}
      BY <1>1, <1>10 DEF Proposers
    <2>4. Cardinality({}) = 0
      BY FS_EmptySet
    <2>5. QED
      BY <1>8, <2>2, <2>3, <2>4, QueueFinite
  <1>15. QED
    BY <1>8, <1>9, <1>11, <1>13, <1>14 DEF KnowledgeInductive

LEMMA InductiveGives ==
  ASSUME KnowledgeInductive
  PROVE  KnowledgeInvariant /\ FourEyes
  <1>1. TypeOK
    BY TypeParts DEF KnowledgeInductive
  <1>2. LiveIsInTrail /\ QueueIsBounded
    BY DEF KnowledgeInductive, Histories
  <1>3. ArticleKeepsRevision
    BY DEF KnowledgeInductive, Histories, Spared, ArticleKeepsRevision, Safe
  <1>4. FourEyes
    BY DEF KnowledgeInductive, Histories, Vouched, Voucher, FourEyes, InCorpus
  <1>5. QED
    BY <1>1, <1>2, <1>3, <1>4 DEF KnowledgeInvariant

-----------------------------------------------------------------------------
(* Whatever requests and sweeps overlap, what is live is in the trail,     *)
(* every article keeps a revision and the review queue is bounded by the   *)
(* requests there can be (routes/knowledge.ts, prune-activity-trails.ts).  *)
THEOREM KnowledgeIsSound == Spec => []KnowledgeInvariant
  <1>1. Init => KnowledgeInductive
    BY InitInductive
  <1>2. KnowledgeInductive /\ [Next]_vars => KnowledgeInductive'
    BY StepInductive
  <1>3. KnowledgeInductive => KnowledgeInvariant
    BY InductiveGives
  <1>4. QED
    BY <1>1, <1>2, <1>3, PTL DEF Spec

(* No text reaches the corpus after its creation but by the approval of an *)
(* admin who did not write it, for any number of admins at once: the claim *)
(* and the check of the approver in routes/knowledge.ts.                   *)
THEOREM FourEyesAlways == Spec => []FourEyes
  <1>1. Init => KnowledgeInductive
    BY InitInductive
  <1>2. KnowledgeInductive /\ [Next]_vars => KnowledgeInductive'
    BY StepInductive
  <1>3. KnowledgeInductive => FourEyes
    BY InductiveGives
  <1>4. QED
    BY <1>1, <1>2, <1>3, PTL DEF Spec

(* No step of anyone's takes a decision again or reverses it.              *)
THEOREM DecisionsStand == Spec => DecisionStands
  <1>1. Init => KnowledgeInductive
    BY InitInductive
  <1>2. KnowledgeInductive /\ [Next]_vars => KnowledgeInductive'
    BY StepInductive
  <1>3. KnowledgeInductive /\ [Next]_vars
          => [\A i \in DOMAIN revision :
                revision[i].status # "pending"
                   => /\ revision'[i].status = revision[i].status
                      /\ revision'[i].approver = revision[i].approver]_vars
    BY StepInductive DEF Grows
  <1>4. QED
    BY <1>1, <1>2, <1>3, PTL DEF Spec, DecisionStands
=============================================================================
