----------------------------- MODULE Workspace -----------------------------
(***************************************************************************)
(* Editing one row of the workspace: an industry, a topic, a feed or a     *)
(* subscription.  Clients read the row and send edits that carry the       *)
(* row_version they read; each edit is one READ COMMITTED transaction of   *)
(* several statements.  An industry takes the outcome of its UPDATE from   *)
(* RETURNING.  The other three read the row back and accept the edit when  *)
(* its version is the expected one plus one, whoever has made it so.       *)
(***************************************************************************)
EXTENDS Naturals, Sequences, FiniteSets

CONSTANTS Clients,      \* the tabs and scripts of one owner
          Kinds,        \* the kinds of row a behaviour may be about
          MaxEdits,     \* edits sent in one behaviour (bound)
          None

ASSUME WorkspaceAssumption ==
    /\ Kinds \subseteq {"industry", "topic", "feed", "subscription"}
    /\ MaxEdits \in Nat
    /\ None \notin Clients

VARIABLES kind,         \* what the row is
          row,          \* the committed row
          revisions,    \* its committed revisions: the edit that wrote each
          holder,       \* whose transaction holds the row lock
          views,        \* what each client has read of the row
          edits,        \* the edits sent, with their answers
          txn           \* the transaction of each client's request

vars == <<kind, row, revisions, holder, views, edits, txn>>

----------------------------------------------------------------------------
(* What may be asked: a move of the status and a change of the content.    *)

INDUSTRY_TRANSITIONS ==
    [activate |-> [from |-> {"draft", "paused"}, to |-> "active"],
     pause    |-> [from |-> {"active"}, to |-> "paused"],
     archive  |-> [from |-> {"active", "paused"}, to |-> "archived"],
     restore  |-> [from |-> {"archived"}, to |-> "paused"]]

TOPIC_ALLOWED_TARGETS ==
    [active   |-> {"active", "paused", "archived"},
     paused   |-> {"active", "paused", "archived"},
     archived |-> {}]

Revised == kind \in {"industry", "topic"}

\* A lifecycle command names an action; every PATCH names a target.
Commands ==
    CASE kind = "industry" ->
            {[move |-> a, text |-> FALSE] : a \in DOMAIN INDUSTRY_TRANSITIONS}
              \cup {[move |-> None, text |-> t] : t \in BOOLEAN}
      [] kind = "topic" ->
            [move : {None, "active", "paused", "archived"}, text : BOOLEAN]
      [] OTHER -> [move : {"active", "paused"}, text : {FALSE}]

Target(command, status) ==
    IF command.move = None THEN status
    ELSE IF kind = "industry" THEN INDUSTRY_TRANSITIONS[command.move].to
    ELSE command.move

\* Mutant: a topic may be asked back from the archive.
LegalForEver(command, status) ==
    kind = "industry" /\ command.move # None =>
        status \in INDUSTRY_TRANSITIONS[command.move].from

Legal(command, status) ==
    command.move # None =>
        CASE kind = "industry" -> status \in INDUSTRY_TRANSITIONS[command.move].from
          [] kind = "topic" -> command.move \in TOPIC_ALLOWED_TARGETS[status] \cup {status}
          [] OTHER -> TRUE

----------------------------------------------------------------------------
Idle == [at |-> "idle", edit |-> 0, image |-> None, latest |-> 0, wrote |-> FALSE]

\* The row of a new industry, topic, feed or subscription.
Init ==
    /\ kind \in Kinds
    /\ row = [status |-> IF kind = "industry" THEN "draft" ELSE "active",
              version |-> 1, current |-> IF Revised THEN 1 ELSE 0]
    /\ revisions = IF Revised THEN <<0>> ELSE <<>>
    /\ holder = None
    /\ views = [c \in Clients |-> None]
    /\ edits = <<>>
    /\ txn = [c \in Clients |-> Idle]

\* GET: the view carries the row's version and its current revision.
Look(c) ==
    /\ txn[c].at = "idle"
    /\ views' = [views EXCEPT ![c] = row]
    /\ UNCHANGED <<kind, row, revisions, holder, edits, txn>>

\* The client sends an edit of the version it has seen.
Send(c) ==
    /\ txn[c].at = "idle" /\ views[c] # None /\ Len(edits) < MaxEdits
    /\ \E command \in Commands :
          edits' = Append(edits, [command |-> command, saw |-> views[c],
                                  made |-> 0, reply |-> "none"])
    /\ txn' = [txn EXCEPT ![c] = [at |-> "read", edit |-> Len(edits) + 1, image |-> None,
                                  latest |-> 0, wrote |-> FALSE]]
    /\ UNCHANGED <<kind, row, revisions, holder, views>>

Edit(c) == edits[txn[c].edit]

\* The transaction goes on to its next statement.
Goto(c, at, image, latest, wrote) ==
    txn' = [txn EXCEPT ![c] = [at |-> at, edit |-> txn[c].edit, image |-> image,
                               latest |-> latest, wrote |-> wrote]]

\* The request ends with its answer, and the lock of the row is free.
End(c, reply, made) ==
    /\ txn' = [txn EXCEPT ![c] = Idle]
    /\ holder' = IF holder = c THEN None ELSE holder
    /\ edits' = [edits EXCEPT ![txn[c].edit] =
                    [command |-> Edit(c).command, saw |-> Edit(c).saw,
                     made |-> made, reply |-> reply]]
    /\ UNCHANGED kind

\* What an edit that is not accepted has not committed is rolled back.
Answer(c, reply) ==
    /\ End(c, reply, 0)
    /\ UNCHANGED <<row, revisions, views>>

\* The service reads the row and checks the move against the status.
Read(c) ==
    /\ txn[c].at = "read"
    /\ IF Legal(Edit(c).command, row.status)
       THEN /\ Goto(c, "update", row, 0, FALSE)
            /\ UNCHANGED <<kind, row, revisions, holder, views, edits>>
       ELSE Answer(c, "refused")

\* Mutant: the filter on the version is missing.
MatchesAny(c) == TRUE

\* UPDATE ... WHERE row_version = expected waits for the lock of the row
\* and looks at what was committed meanwhile.
Matches(c) == row.version = Edit(c).saw.version

\* The row after its UPDATE.
Updated(status) == [status |-> status, version |-> row.version + 1, current |-> row.current]

\* The name or the status of an industry, with RETURNING.
UpdateIndustry(c) ==
    /\ kind = "industry" /\ txn[c].at = "update" /\ holder = None
    /\ IF Matches(c)
       THEN /\ holder' = c
            /\ Goto(c, IF Edit(c).command.move = None THEN "latest" ELSE "commit",
                    Updated(Target(Edit(c).command, txn[c].image.status)), 0, FALSE)
            /\ UNCHANGED <<kind, row, revisions, views, edits>>
       ELSE Answer(c, "conflict")

\* A topic, a feed or a subscription: the count of updated rows is not read.
\* A status equal to the one read is not written.
UpdateRow(c) ==
    /\ kind # "industry" /\ txn[c].at = "update" /\ holder = None
    /\ LET to == Target(Edit(c).command, row.status) IN
       IF Matches(c)
       THEN /\ holder' = c
            /\ Goto(c, "readback",
                    Updated(IF kind = "topic" /\ to = txn[c].image.status
                            THEN row.status ELSE to), 0, FALSE)
       ELSE /\ holder' = holder
            /\ Goto(c, "readback", txn[c].image, 0, FALSE)
    /\ UNCHANGED <<kind, row, revisions, views, edits>>

\* The row as the transaction sees it: its own image, or what is committed.
Visible(c) == IF holder = c THEN txn[c].image ELSE row

\* The row read back decides: the expected version plus one is a success.
ReadBack(c) ==
    /\ txn[c].at = "readback"
    /\ IF Visible(c).version = Edit(c).saw.version + 1
       THEN /\ Goto(c, IF Revised THEN "latest" ELSE "commit", Visible(c), 0, FALSE)
            /\ UNCHANGED <<kind, row, revisions, holder, views, edits>>
       ELSE Answer(c, "conflict")

\* The latest revision is read, and the edit merged into it; nothing is
\* appended when the content stays as it was.
Latest(c) ==
    /\ txn[c].at = "latest"
    /\ Goto(c, IF Edit(c).command.text THEN "insert" ELSE "commit", txn[c].image,
            Len(revisions), FALSE)
    /\ UNCHANGED <<kind, row, revisions, holder, views, edits>>

\* UNIQUE(parent, version): an insert waits for the transaction that has
\* written the same number, and fails when that one has committed.
InsertRevision(c) ==
    /\ txn[c].at = "insert"
    /\ \A d \in Clients \ {c} :
          txn[d].wrote => txn[d].latest # txn[c].latest
    /\ IF Len(revisions) = txn[c].latest
       THEN /\ Goto(c, "pointer", txn[c].image, txn[c].latest, TRUE)
            /\ UNCHANGED <<kind, row, revisions, holder, views, edits>>
       ELSE Answer(c, "error")

\* The row with another current revision.
Pointed(image, revision) ==
    [status |-> image.status, version |-> image.version, current |-> revision]

\* The pointer moves where row_version is the one just returned; the
\* statement takes the lock when the transaction does not hold it.
MovePointer(c) ==
    /\ txn[c].at = "pointer" /\ holder \in {None, c}
    /\ IF Visible(c).version = txn[c].image.version
       THEN /\ holder' = c
            /\ Goto(c, "commit", Pointed(Visible(c), txn[c].latest + 1), txn[c].latest, TRUE)
            /\ UNCHANGED <<kind, row, revisions, views, edits>>
       ELSE Answer(c, "conflict")

\* The dependency commits the request's transaction and answers its view.
Commit(c) ==
    /\ txn[c].at = "commit"
    /\ row' = Visible(c)
    /\ revisions' = IF txn[c].wrote THEN Append(revisions, txn[c].edit) ELSE revisions
    /\ views' = [views EXCEPT ![c] = txn[c].image]
    /\ End(c, "ok", IF txn[c].wrote THEN txn[c].latest + 1 ELSE 0)

\* The request fails: the process dies, a name is taken (found by the check
\* or by the unique index), or two transactions wait for each other and the
\* database ends one.
Abort(c) == txn[c].at # "idle" /\ Answer(c, "error")

Next == \E c \in Clients :
    \/ Look(c) \/ Send(c) \/ Read(c) \/ UpdateIndustry(c) \/ UpdateRow(c)
    \/ ReadBack(c) \/ Latest(c) \/ InsertRevision(c) \/ MovePointer(c)
    \/ Commit(c) \/ Abort(c)

Spec == Init /\ [][Next]_vars

----------------------------------------------------------------------------
Accepted == {i \in 1..Len(edits) : edits[i].reply = "ok"}

OneEditPerVersion ==
    \A i, j \in Accepted : edits[i].saw.version = edits[j].saw.version => i = j

\* What an accepted edit replaced is what its client saw.
NothingUnseenReplaced ==
    \A i \in Accepted : edits[i].made # 0 => edits[i].made = edits[i].saw.current + 1

\* The current revision is the latest one (uq_..._version and the pointer's
\* filter), also after edits that were accepted without holding the row.
PointerIsLatest == row.current = Len(revisions)

\* The optimistic lock of industries (update_industry, append_industry_
\* revision): of the edits of one version one is accepted, and an accepted
\* edit of the content was made on the revision its client had in view,
\* although the version is checked in one statement and the revision is read,
\* inserted and made current in three later ones; the current revision of
\* industries and topics is the latest.
EditsSeeTheirBase ==
    /\ PointerIsLatest
    /\ kind = "industry" => OneEditPerVersion /\ NothingUnseenReplaced

LegalMove(from, to) ==
    CASE kind = "industry" ->
            \E a \in DOMAIN INDUSTRY_TRANSITIONS :
                from \in INDUSTRY_TRANSITIONS[a].from /\ to = INDUSTRY_TRANSITIONS[a].to
      [] kind = "topic" -> to \in TOPIC_ALLOWED_TARGETS[from]
      [] OTHER -> TRUE

\* The status of an industry and of a topic moves only along the tables,
\* although the move is checked on a row read before the UPDATE: an archived
\* topic stays archived, and an archived industry comes back paused
\* (WorkspaceService.lifecycle, patch_topic).
LegalMovesOnly ==
    [][row'.status # row.status => LegalMove(row.status, row'.status)]_vars

\* What docs/design/api.md:13 and services/workspace.py:14-16 promise of every
\* row: an edit of a version that is no longer there is refused.
ConflictIsRefused == OneEditPerVersion
=============================================================================
