----------------------------- MODULE Knowledge -----------------------------
(***************************************************************************)
(* The knowledge base the auto-reply answers from: its articles and their  *)
(* revisions, apps/api/src/routes/knowledge.ts, and the yearly pruning of  *)
(* the revisions, jobs/prune-activity-trails.ts.                           *)
(*                                                                         *)
(* An edit that could reach the corpus is a proposal that another admin    *)
(* approves; every other write goes straight through and is recorded with  *)
(* it.  Each route reads before it writes, so two admins' interleave.  A   *)
(* request that is killed leaves nothing half done: what it writes, it     *)
(* writes in one transaction.                                              *)
(***************************************************************************)
EXTENDS Naturals, Sequences, FiniteSets

CONSTANTS
    Admins,
    Requests,     \* slots for requests under way
    MaxArticles,  \* bound: articles there may be
    MaxAsked      \* bound: requests let in

ASSUME KnowledgeAssumption ==
    /\ "none" \notin Admins
    /\ IsFiniteSet(Requests)
    /\ MaxArticles \in Nat \ {0} /\ MaxAsked \in Nat

VARIABLES
    article,   \* each id's live row, if there is one
    revision,  \* every revision ever written, by id
    req,       \* the requests under way
    aged,      \* how many of them, the first ones, are older than RETENTION_MS
    prune,     \* the sweep: whether it runs, its cutoff and what it will keep
    asked      \* how many requests have been let in

vars == <<article, revision, req, aged, prune, asked>>

Articles == 1..MaxArticles

(* A text is known by the request that brought it; 1 is the imported one.  *)
Text == 1..(MaxAsked + 1)

Article == [there : BOOLEAN, text : Text, autoReply : BOOLEAN, archived : BOOLEAN]

NoArticle == [there |-> FALSE, text |-> 1, autoReply |-> FALSE, archived |-> FALSE]

Revision == [article : Articles, action : {"created", "updated", "archived", "restored"},
             text : Text, autoReply : BOOLEAN, archived : BOOLEAN,
             editor : Admins \cup {"none"}, status : {"pending", "approved", "rejected"},
             approver : Admins \cup {"none"},
             kept : BOOLEAN]   \* not pruned

Req == [step : {"idle", "nextId", "create", "readEdit", "edit", "checkPending", "propose",
                "approve", "reject", "readArchive", "archive"},
        by : Admins \cup {"none"}, article : Articles \cup {0},
        text : Text, flag : BOOLEAN,  \* the body: its text, autoReply or archived
        revision : Nat]

NoReq == [step |-> "idle", by |-> "none", article |-> 0, text |-> 1, flag |-> FALSE,
          revision |-> 0]

TypeOK ==
    /\ article \in [Articles -> Article]
    /\ revision \in Seq(Revision)
    /\ req \in [Requests -> Req]
    /\ aged \in 0..Len(revision)
    /\ prune \in [running : BOOLEAN, cutoff : 0..aged, keep : SUBSET (DOMAIN revision)]
    /\ asked \in 0..MaxAsked

NotRunning == [running |-> FALSE, cutoff |-> 0, keep |-> {}]

(* A revision by `editor`, applied by the transaction that writes it.      *)
Applied(a, action, row, editor) ==
    [article |-> a, action |-> action, text |-> row.text, autoReply |-> row.autoReply,
     archived |-> row.archived, editor |-> editor, status |-> "approved",
     approver |-> "none", kept |-> TRUE]

(* One imported article, in the corpus or withheld from it.                *)
Init ==
    \E flag \in BOOLEAN :
        LET imported == [there |-> TRUE, text |-> 1, autoReply |-> flag, archived |-> FALSE] IN
        /\ article = [a \in Articles |-> IF a = 1 THEN imported ELSE NoArticle]
        /\ revision = <<Applied(1, "created", imported, "none")>>
        /\ req = [r \in Requests |-> NoReq]
        /\ aged = 0
        /\ prune = NotRunning
        /\ asked = 0

There == {a \in Articles : article[a].there}
Pending(a) == {i \in DOMAIN revision : /\ revision[i].article = a
                                       /\ revision[i].status = "pending"
                                       /\ revision[i].kept}

GoOn(r, step) == req' = [req EXCEPT ![r].step = step]
Answer(r) == req' = [req EXCEPT ![r] = NoReq]

(* Requests are alike: one takes the first slot that is free.              *)
LetIn(r, q) ==
    LET free == {s \in Requests : req[s].step = "idle"} IN
    /\ free # {} /\ r = CHOOSE s \in free : TRUE
    /\ asked < MaxAsked
    /\ asked' = asked + 1
    /\ req' = [req EXCEPT ![r] = q]
    /\ UNCHANGED <<article, revision, aged, prune>>

Fresh == asked + 2

AsksToCreate(r, u, flag) ==
    LetIn(r, [NoReq EXCEPT !.step = "nextId", !.by = u, !.text = Fresh, !.flag = flag])
AsksToEdit(r, u, a, flag) ==
    LetIn(r, [NoReq EXCEPT !.step = "readEdit", !.by = u, !.article = a, !.text = Fresh,
                           !.flag = flag])
AsksToArchive(r, u, a, flag) ==
    LetIn(r, [NoReq EXCEPT !.step = "readArchive", !.by = u, !.article = a, !.flag = flag])

(* pendingRevisionOf: the revision named has to be there, and approving    *)
(* it is not for the one who wrote it.                                     *)
AsksToApprove(r, u, i) ==
    /\ revision[i].kept /\ revision[i].editor # u
    /\ LetIn(r, [NoReq EXCEPT !.step = "approve", !.by = u, !.revision = i])
AsksToReject(r, u, i) ==
    /\ revision[i].kept
    /\ LetIn(r, [NoReq EXCEPT !.step = "reject", !.by = u, !.revision = i])

-----------------------------------------------------------------------------
(* POST /.                                                                 *)

(* nextArticleId: one past the highest there is.                           *)
NextId(r) ==
    /\ req[r].step = "nextId"
    /\ LET next == Cardinality(There) + 1 IN
       IF next \in Articles
       THEN req' = [req EXCEPT ![r].step = "create", ![r].article = next]
       ELSE Answer(r)
    /\ UNCHANGED <<article, revision, aged, prune, asked>>

(* The id is the primary key: the second insert of one fails.              *)
Create(r) ==
    LET q == req[r]
        row == [there |-> TRUE, text |-> q.text, autoReply |-> q.flag, archived |-> FALSE] IN
    /\ q.step = "create"
    /\ IF q.article \in There THEN UNCHANGED <<article, revision>>
       ELSE /\ article' = [article EXCEPT ![q.article] = row]
            /\ revision' = Append(revision, Applied(q.article, "created", row, q.by))
    /\ Answer(r)
    /\ UNCHANGED <<aged, prune, asked>>

-----------------------------------------------------------------------------
(* PATCH /:id.                                                             *)

(* Mutant: only what is in the corpus already is reviewed.                 *)
ApprovalIfLive(existing, flag) == existing.autoReply

(* Either side of the change counts.                                       *)
needsApproval(existing, flag) == existing.autoReply \/ flag

ReadEdit(r) ==
    LET existing == article[req[r].article] IN
    /\ req[r].step = "readEdit"
    /\ IF existing.archived THEN Answer(r)
       ELSE GoOn(r, IF needsApproval(existing, req[r].flag) THEN "checkPending" ELSE "edit")
    /\ UNCHANGED <<article, revision, aged, prune, asked>>

(* Outside the corpus on both sides: written and recorded at once.  That   *)
(* the article is not archived is taken from the reading.                  *)
Edit(r) ==
    LET q == req[r]
        row == [article[q.article] EXCEPT !.text = q.text, !.autoReply = q.flag] IN
    /\ q.step = "edit"
    /\ article' = [article EXCEPT ![q.article] = row]
    /\ revision' = Append(revision, Applied(q.article, "updated",
                                            [row EXCEPT !.archived = FALSE], q.by))
    /\ Answer(r)
    /\ UNCHANGED <<aged, prune, asked>>

(* "One at a time": no other revision may be awaiting approval ...         *)
CheckPending(r) ==
    /\ req[r].step = "checkPending"
    /\ IF Pending(req[r].article) # {} THEN Answer(r) ELSE GoOn(r, "propose")
    /\ UNCHANGED <<article, revision, aged, prune, asked>>

(* ... at the time of the check.                                           *)
Propose(r) ==
    LET q == req[r]
        row == [there |-> TRUE, text |-> q.text, autoReply |-> q.flag, archived |-> FALSE] IN
    /\ q.step = "propose"
    /\ revision' = Append(revision, [Applied(q.article, "updated", row, q.by)
                                        EXCEPT !.status = "pending"])
    /\ Answer(r)
    /\ UNCHANGED <<article, aged, prune, asked>>

-----------------------------------------------------------------------------
(* POST /:id/revisions/:revisionId/approve and /reject.                    *)

(* The conditional claim of a revision: whoever comes second gets nothing. *)
Claimable(i) == revision[i].status = "pending" /\ revision[i].kept

Decided(r, status) ==
    [revision EXCEPT ![req[r].revision].status = status,
                     ![req[r].revision].approver = req[r].by]

Approve(r) ==
    LET i == req[r].revision
        v == revision[i] IN
    /\ req[r].step = "approve"
    /\ IF Claimable(i)
       THEN /\ revision' = Decided(r, "approved")
            /\ article' = [article EXCEPT ![v.article].text = v.text,
                                          ![v.article].autoReply = v.autoReply]
       ELSE UNCHANGED <<article, revision>>
    /\ Answer(r)
    /\ UNCHANGED <<aged, prune, asked>>

(* Mutant: turning down is by id alone.                                    *)
RejectById(r) ==
    /\ req[r].step = "reject"
    /\ revision' = Decided(r, "rejected")
    /\ Answer(r)
    /\ UNCHANGED <<article, aged, prune, asked>>

Reject(r) ==
    /\ req[r].step = "reject"
    /\ revision' = IF Claimable(req[r].revision) THEN Decided(r, "rejected") ELSE revision
    /\ Answer(r)
    /\ UNCHANGED <<article, aged, prune, asked>>

-----------------------------------------------------------------------------
(* POST /:id/archive.                                                      *)

ReadArchive(r) ==
    /\ req[r].step = "readArchive"
    /\ IF article[req[r].article].archived = req[r].flag
       THEN Answer(r) ELSE GoOn(r, "archive")
    /\ UNCHANGED <<article, revision, aged, prune, asked>>

Archive(r) ==
    LET q == req[r]
        row == [article[q.article] EXCEPT !.archived = q.flag] IN
    /\ q.step = "archive"
    /\ article' = [article EXCEPT ![q.article] = row]
    /\ revision' = Append(revision, Applied(q.article,
                                            IF q.flag THEN "archived" ELSE "restored",
                                            row, q.by))
    /\ Answer(r)
    /\ UNCHANGED <<aged, prune, asked>>

-----------------------------------------------------------------------------
(* The sweep.                                                              *)

YearPasses ==
    /\ aged < Len(revision)
    /\ aged' = Len(revision)
    /\ UNCHANGED <<article, revision, req, prune, asked>>

(* Mutant: the newest revision there is survives, not each article's.      *)
LatestAnywhere ==
    {i \in DOMAIN revision :
        revision[i].kept /\ \A j \in DOMAIN revision : revision[j].kept => j <= i}

(* latestRevisionIdPerArticle: by id, whatever became of the revision.     *)
Latest ==
    {i \in DOMAIN revision :
        /\ revision[i].kept
        /\ \A j \in DOMAIN revision :
             revision[j].kept /\ revision[j].article = revision[i].article => j <= i}

PruneStarts ==
    /\ ~prune.running
    /\ prune' = [running |-> TRUE, cutoff |-> aged, keep |-> Latest]
    /\ UNCHANGED <<article, revision, req, aged, asked>>

(* What is older than the cutoff and not to be kept, both as read at the   *)
(* start; the oldest first, and a batch may be of one.                     *)
PruneDeletes ==
    LET doomed == {i \in 1..prune.cutoff : revision[i].kept /\ i \notin prune.keep} IN
    /\ prune.running
    /\ \E i \in doomed :
         /\ \A j \in doomed : i <= j
         /\ revision' = [revision EXCEPT ![i].kept = FALSE]
    /\ UNCHANGED <<article, req, aged, prune, asked>>

(* Done, out of batches, expired or killed.                                *)
PruneEnds ==
    /\ prune.running
    /\ prune' = NotRunning
    /\ UNCHANGED <<article, revision, req, aged, asked>>

-----------------------------------------------------------------------------
Next ==
    \/ \E r \in Requests, u \in Admins :
         \/ \E flag \in BOOLEAN : AsksToCreate(r, u, flag)
         \/ \E a \in There, flag \in BOOLEAN :
              AsksToEdit(r, u, a, flag) \/ AsksToArchive(r, u, a, flag)
         \/ \E i \in DOMAIN revision : AsksToApprove(r, u, i) \/ AsksToReject(r, u, i)
    \/ \E r \in Requests :
         \/ NextId(r) \/ Create(r)
         \/ ReadEdit(r) \/ Edit(r) \/ CheckPending(r) \/ Propose(r)
         \/ Approve(r) \/ Reject(r) \/ ReadArchive(r) \/ Archive(r)
    \/ YearPasses \/ PruneStarts \/ PruneDeletes \/ PruneEnds

Spec == Init /\ [][Next]_vars

-----------------------------------------------------------------------------
(* Safety.                                                                 *)

InCorpus(a) == article[a].there /\ article[a].autoReply /\ ~article[a].archived

(* Two people have seen what the machine may tell a customer: a text that  *)
(* is in the corpus was approved, flag and all, by an admin who did not    *)
(* write it, or came with its article; whatever edits, approvals and       *)
(* archivings overlap, and although the need for approval is decided on an *)
(* earlier reading.                                                        *)
FourEyes ==
    \A a \in Articles :
        InCorpus(a) => \E i \in DOMAIN revision :
            /\ revision[i].article = a /\ revision[i].text = article[a].text
            /\ revision[i].autoReply /\ revision[i].status = "approved"
            /\ \/ revision[i].action = "created"
               \/ revision[i].approver \notin {"none", revision[i].editor}

(* "There is no path to knowledge_article that does not also write a       *)
(* revision": what an article says, and whether the machine may, is what   *)
(* some applied revision of it says, until that one is pruned for its age. *)
LiveIsInTrail ==
    \A a \in There : \E i \in DOMAIN revision :
        /\ revision[i].article = a /\ revision[i].status = "approved"
        /\ revision[i].text = article[a].text
        /\ revision[i].autoReply = article[a].autoReply
        /\ revision[i].kept \/ i <= aged

(* An article whose every revision were pruned could be deleted, and the   *)
(* replies that cite it would cite nothing: one always survives the sweep, *)
(* also when revisions are written while it runs.                          *)
ArticleKeepsRevision ==
    \A a \in There : \E i \in DOMAIN revision : revision[i].article = a /\ revision[i].kept

(* However many admins propose at once, the review queue never holds more  *)
(* proposals for an article than requests can be under way together: one   *)
(* more would have been turned away by the check.                          *)
QueueIsBounded ==
    \A a \in Articles :
        Cardinality(Pending(a))
          + Cardinality({r \in Requests : req[r].step = "propose" /\ req[r].article = a})
            <= Cardinality(Requests)

(* A decision on a proposal stands, of two admins deciding at once too: it *)
(* is not taken twice, nor reversed, nor does it change hands.  (That what *)
(* was turned down is not live is part of LiveIsInTrail.)                  *)
DecisionStands ==
    [][\A i \in DOMAIN revision :
         revision[i].status # "pending"
            => /\ revision'[i].status = revision[i].status
               /\ revision'[i].approver = revision[i].approver]_vars

(* What every reachable state satisfies, by parts: what is live is in the  *)
(* trail, the prune leaves every article one, and the queue is bounded.    *)
KnowledgeInvariant ==
    TypeOK /\ LiveIsInTrail /\ ArticleKeepsRevision /\ QueueIsBounded
=============================================================================
