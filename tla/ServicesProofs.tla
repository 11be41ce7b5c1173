--------------------------- MODULE ServicesProofs ----------------------------
(***************************************************************************)
(* Proofs about Services, part by part.                                    *)
(*                                                                         *)
(* Workspace, for any number of clients and edits.  A client that holds    *)
(* the row's lock has an image of the row at most one version ahead; one   *)
(* that does not has seen a version at most the row's; and of all          *)
(* transactions at most one has written a revision, the next one.          *)
(*                                                                         *)
(* Scheduler, Fetching, Reports and Sessions, each with an invariant of    *)
(* its own variables, for any number of schedulers, requests, jobs and     *)
(* sessions.                                                               *)
(***************************************************************************)
EXTENDS Services, FiniteSetTheorems, TLAPS

Statuses == {"draft", "active", "paused", "archived"}

Rows == [status : Statuses, version : Nat, current : Nat]

\* The commands of every kind of row.
AnyCommand ==
    {[move |-> a, text |-> FALSE] : a \in DOMAIN INDUSTRY_TRANSITIONS}
      \cup {[move |-> None, text |-> t] : t \in BOOLEAN}
      \cup [move : {None, "active", "paused", "archived"}, text : BOOLEAN]
      \cup [move : {"active", "paused"}, text : {FALSE}]

EditRow == [command : AnyCommand,
            saw : Rows, made : Nat, reply : {"none", "ok", "refused", "conflict", "error"}]

\* Where a transaction may hold the lock, and where it has an image of the row.
Late == {"latest", "insert", "pointer", "commit"}
Held == {"readback"} \cup Late
Imaged == {"update"} \cup Held

TxnRow == [at : {"idle", "read"} \cup Imaged, edit : Nat, image : Rows \cup {None},
           latest : Nat, wrote : BOOLEAN]

RowsOK ==
    /\ kind \in Kinds
    /\ row \in Rows
    /\ revisions \in Seq(Nat)
    /\ holder \in Clients \cup {None}
    /\ views \in [Clients -> Rows \cup {None}]
    /\ edits \in Seq(EditRow)
    /\ txn \in [Clients -> TxnRow]

\* What was seen is not newer than the row; an industry's is the row or older.
Seen(v) ==
    /\ v.version <= row.version
    /\ kind = "industry" /\ v.version = row.version => v.current = row.current

Edited(edit) ==
    /\ edit.command \in Commands
    /\ Seen(edit.saw)
    /\ kind = "industry" /\ edit.reply = "ok" =>
          /\ edit.saw.version < row.version
          /\ edit.made # 0 => edit.made = edit.saw.current + 1

\* The image of the client that holds the lock is the row or its next version.
Next1(image) ==
    \/ image.version = row.version /\ image.status = row.status
    \/ /\ image.version = row.version + 1
       /\ image.status = row.status \/ LegalMove(row.status, image.status)

Holds(c) ==
    /\ txn[c].at \in Held
    /\ (txn[c].at = "commit" /\ txn[c].wrote) \/ txn[c].image.current = row.current
    /\ Next1(txn[c].image)

Wrote(c) ==
    /\ txn[c].at \in {"pointer", "commit"}
    /\ txn[c].latest = Len(revisions)
    /\ txn[c].at = "commit" => holder = c /\ txn[c].image.current = txn[c].latest + 1

Waits(c) ==
    /\ Edit(c).saw.version <= txn[c].image.version
    /\ txn[c].image.version = row.version => txn[c].image.status = row.status
    /\ Legal(Edit(c).command, txn[c].image.status)

\* An industry's transaction is past its UPDATE only with the lock.
Locked(c) ==
    /\ holder = c
    /\ txn[c].image.version = row.version + 1
    /\ Edit(c).saw.version = row.version

Client(c) ==
    /\ views[c] # None => Seen(views[c])
    /\ txn[c].at # "idle" => txn[c].edit \in DOMAIN edits
    /\ txn[c].at \in Imaged => txn[c].image \in Rows
    /\ txn[c].at \in Imaged /\ holder # c => txn[c].image.version <= row.version
    /\ holder = c => Holds(c)
    /\ txn[c].wrote => Wrote(c)
    /\ txn[c].at = "pointer" => txn[c].wrote
    /\ txn[c].at = "update" => Waits(c)
    /\ kind = "industry" => txn[c].at # "readback" /\ (txn[c].at \in Late => Locked(c))

WorkspaceInv ==
    /\ RowsOK
    /\ PointerIsLatest
    /\ \A i \in DOMAIN edits : Edited(edits[i])
    /\ \A c \in Clients : Client(c)
    /\ \A c, d \in Clients : txn[c].wrote /\ txn[d].wrote => c = d
    /\ kind = "industry" => OneEditPerVersion

LEMMA WorkspaceInit == Init => WorkspaceInv
<1> SUFFICES ASSUME Init PROVE WorkspaceInv
  OBVIOUS
<1>1. Idle \in TxnRow /\ Idle.at = "idle" /\ ~Idle.wrote
  BY DEF Idle, TxnRow
<1>2. row \in Rows
  BY DEF Init, Rows, Statuses
<1>3. RowsOK
  BY <1>1, <1>2 DEF Init, RowsOK
<1>4. PointerIsLatest
  BY DEF Init, PointerIsLatest
<1>5. edits = << >> /\ views = [c \in Clients |-> None] /\ txn = [c \in Clients |-> Idle]
      /\ holder = None
  BY DEF Init
<1>6. \A c \in Clients : Client(c)
  BY <1>1, <1>5, WorkspaceAssumption DEF Client, Imaged, Held, Late
<1> QED
  BY <1>1, <1>3, <1>4, <1>5, <1>6 DEF WorkspaceInv, OneEditPerVersion, Accepted

----------------------------------------------------------------------------
\* A legal command moves the status along the tables, or leaves it.
LEMMA TargetLegal ==
    ASSUME kind \in Kinds, NEW command \in Commands, NEW old \in Statuses,
           Legal(command, old)
    PROVE  /\ Target(command, old) \in Statuses
           /\ \/ Target(command, old) = old
              \/ LegalMove(old, Target(command, old))
<1>1. CASE command.move = None
  BY <1>1 DEF Target
<1>2. CASE command.move # None /\ kind = "industry"
  <2>1. command.move \in {"activate", "pause", "archive", "restore"}
    BY <1>2 DEF Commands, INDUSTRY_TRANSITIONS
  <2>2. /\ Target(command, old) = INDUSTRY_TRANSITIONS[command.move].to
        /\ old \in INDUSTRY_TRANSITIONS[command.move].from
    BY <1>2 DEF Target, Legal
  <2>3. INDUSTRY_TRANSITIONS[command.move].to \in Statuses
    BY <2>1 DEF INDUSTRY_TRANSITIONS, Statuses
  <2>4. command.move \in DOMAIN INDUSTRY_TRANSITIONS
    BY <2>1 DEF INDUSTRY_TRANSITIONS
  <2> QED
    BY <1>2, <2>2, <2>3, <2>4 DEF LegalMove
<1>3. CASE command.move # None /\ kind = "topic"
  <2>1. command.move \in {"active", "paused", "archived"}
    BY <1>3 DEF Commands
  <2> QED
    BY <1>3, <2>1 DEF Target, Legal, LegalMove, Statuses
<1>4. CASE command.move # None /\ kind # "industry" /\ kind # "topic"
  <2>1. command.move \in {"active", "paused"}
    BY <1>4 DEF Commands
  <2> QED
    BY <1>4, <2>1 DEF Target, LegalMove, Statuses
<1> QED
  BY <1>1, <1>2, <1>3, <1>4

\* Before its commit a transaction is known only to its client: if it has not
\* written a revision that another has, the others stay as they are.
LEMMA OthersStay ==
    ASSUME WorkspaceInv, NEW c \in Clients, NEW t \in TxnRow,
           txn' = [txn EXCEPT ![c] = t],
           UNCHANGED <<kind, row, revisions, views>>,
           edits' \in Seq(EditRow), DOMAIN edits \subseteq DOMAIN edits',
           \A i \in DOMAIN edits : /\ edits'[i].saw = edits[i].saw
                                   /\ edits'[i].command = edits[i].command,
           \A i \in DOMAIN edits' : Edited(edits'[i]),
           holder' \in {holder, c} \/ (holder = c /\ holder' = None),
           \A d \in Clients : holder' = c /\ holder = d => d = c,
           t.wrote => \A d \in Clients : d # c => ~txn[d].wrote,
           kind = "industry" => OneEditPerVersion',
           Client(c)'
    PROVE  WorkspaceInv'
<1> USE DEF WorkspaceInv
<1>1. RowsOK'
  BY DEF RowsOK
<1>2. PointerIsLatest' /\ (kind' = "industry" => OneEditPerVersion')
  BY DEF PointerIsLatest
<1>3. \A i \in DOMAIN edits' : Edited(edits[i])'
  BY DEF Edited, Seen, Commands, Revised
<1>4. ASSUME NEW d \in Clients, d # c PROVE Client(d)'
  <2>1. txn'[d] = txn[d] /\ Client(d)
    BY <1>4 DEF RowsOK
  <2>2. holder' = d <=> holder = d
    BY <1>4, WorkspaceAssumption
  <2>3. views'[d] # None => Seen(views[d])'
    BY <2>1 DEF Client, Seen
  <2>4. /\ txn'[d].at # "idle" => txn'[d].edit \in DOMAIN edits'
        /\ txn'[d].at # "idle" => Edit(d)'.saw = Edit(d).saw
        /\ txn'[d].at # "idle" => Edit(d)'.command = Edit(d).command
    BY <2>1 DEF Client, Edit
  <2>5. holder' = d => Holds(d)'
    BY <2>1, <2>2 DEF Client, Holds, Next1, LegalMove
  <2>6. txn'[d].wrote => Wrote(d)'
    BY <2>1, <2>2 DEF Client, Wrote
  <2>7. txn'[d].at = "update" => Waits(d)'
    BY <2>1, <2>4 DEF Client, Waits, Legal
  <2>8. kind' = "industry" => txn'[d].at # "readback" /\ (txn'[d].at \in Late => Locked(d)')
    BY <2>1, <2>2, <2>4 DEF Client, Locked, Late
  <2> QED
    BY <2>1, <2>2, <2>3, <2>4, <2>5, <2>6, <2>7, <2>8 DEF Client
<1>5. \A d, e \in Clients : txn'[d].wrote /\ txn'[e].wrote => d = e
  BY DEF RowsOK
<1> QED
  BY <1>1, <1>2, <1>3, <1>4, <1>5

\* The edits stay as they are: only the transaction goes on.
LEMMA OneGoesOn ==
    ASSUME WorkspaceInv, NEW c \in Clients, NEW t \in TxnRow,
           txn' = [txn EXCEPT ![c] = t],
           UNCHANGED <<kind, row, revisions, views, edits>>,
           holder' = holder \/ (holder' = c /\ holder \in {None, c}),
           t.wrote => \A d \in Clients : d # c => ~txn[d].wrote,
           Client(c)'
    PROVE  WorkspaceInv'
<1>1. edits' \in Seq(EditRow) /\ \A i \in DOMAIN edits' : Edited(edits'[i])
  BY DEF WorkspaceInv, RowsOK
<1>2. \A d \in Clients : holder' = c /\ holder = d => d = c
  BY WorkspaceAssumption
<1>3. kind = "industry" => OneEditPerVersion'
  BY DEF WorkspaceInv, OneEditPerVersion, Accepted
<1> QED
  BY <1>1, <1>2, <1>3, OthersStay

\* A request that ends with a refusal leaves nothing behind.
LEMMA AnswerKeeps ==
    ASSUME WorkspaceInv, NEW c \in Clients, NEW reply \in {"refused", "conflict", "error"},
           txn[c].at # "idle", Answer(c, reply)
    PROVE  WorkspaceInv'
<1> USE DEF WorkspaceInv
<1> DEFINE i == txn[c].edit
           e == [command |-> edits[i].command, saw |-> edits[i].saw,
                 made |-> 0, reply |-> reply]
<1>1. i \in DOMAIN edits
  BY DEF Client
<1>2. edits[i] \in EditRow /\ Edited(edits[i])
  BY <1>1 DEF RowsOK
<1>3. e \in EditRow /\ e.saw = edits[i].saw /\ e.command = edits[i].command /\ e.reply = reply
  BY <1>2 DEF EditRow
<1>4. /\ txn' = [txn EXCEPT ![c] = Idle]
      /\ edits' = [edits EXCEPT ![i] = e]
      /\ holder' = IF holder = c THEN None ELSE holder
      /\ UNCHANGED <<kind, row, revisions, views>>
  BY DEF Answer, End, Edit
<1>5. Edited(e)
  BY <1>2, <1>3 DEF Edited
<1> HIDE DEF e, i
<1>6. /\ edits' \in Seq(EditRow) /\ DOMAIN edits' = DOMAIN edits /\ edits'[i] = e
      /\ Len(edits') = Len(edits)
      /\ \A k \in DOMAIN edits : k # i => edits'[k] = edits[k]
  BY <1>1, <1>3, <1>4 DEF RowsOK
<1>7. \A k \in DOMAIN edits : /\ edits'[k].saw = edits[k].saw
                              /\ edits'[k].command = edits[k].command
                              /\ Edited(edits'[k])
                              /\ edits'[k].reply = "ok" => edits[k].reply = "ok"
  BY <1>3, <1>5, <1>6
<1>8. Idle \in TxnRow /\ Idle.at = "idle" /\ ~Idle.wrote
  BY DEF Idle, TxnRow
<1>9. Client(c)'
  <2>1. txn'[c] = Idle /\ holder' # c
    BY <1>4, WorkspaceAssumption DEF RowsOK
  <2>2. views'[c] # None => Seen(views[c])'
    BY <1>4 DEF Client, Seen
  <2> QED
    BY <1>8, <2>1, <2>2 DEF Client, Imaged, Held, Late
<1>10. kind = "industry" => OneEditPerVersion'
  BY <1>6, <1>7 DEF OneEditPerVersion, Accepted, RowsOK
<1>11. holder' \in {holder, c} \/ (holder = c /\ holder' = None)
  BY <1>4
<1>12. \A d \in Clients : holder' = c /\ holder = d => d = c
  BY <1>4
<1> QED
  BY <1>4, <1>6, <1>7, <1>8, <1>9, <1>10, <1>11, <1>12, OthersStay

----------------------------------------------------------------------------
LEMMA LookKeeps ==
    ASSUME WorkspaceInv, NEW c \in Clients, Look(c) PROVE WorkspaceInv'
<1> USE DEF WorkspaceInv
<1>1. /\ views' = [views EXCEPT ![c] = row]
      /\ UNCHANGED <<kind, row, revisions, holder, edits, txn>>
  BY DEF Look
<1>2. RowsOK'
  BY <1>1 DEF RowsOK
<1>3. ASSUME NEW d \in Clients PROVE Client(d)'
  <2>1. views'[d] = views[d] \/ views'[d] = row
    BY <1>1 DEF RowsOK
  <2>2. row.version \in Nat
    BY DEF RowsOK, Rows
  <2>3. Client(d)
    OBVIOUS
  <2>4. views'[d] # None => Seen(views[d])'
    BY <1>1, <2>1, <2>2, <2>3 DEF Client, Seen
  <2> QED
    BY <1>1, <2>3, <2>4 DEF Client, Holds, Next1, LegalMove, Wrote, Waits, Legal, Edit, Locked
<1>4. \A i \in DOMAIN edits' : Edited(edits[i])'
  BY <1>1 DEF Edited, Seen, Commands
<1> QED
  BY <1>1, <1>2, <1>3, <1>4 DEF PointerIsLatest, OneEditPerVersion, Accepted

LEMMA SendKeeps ==
    ASSUME WorkspaceInv, NEW c \in Clients, Send(c) PROVE WorkspaceInv'
<1> USE DEF WorkspaceInv
<1>1. PICK command \in Commands :
         edits' = Append(edits, [command |-> command, saw |-> views[c],
                                 made |-> 0, reply |-> "none"])
  BY DEF Send
<1> DEFINE e == [command |-> command, saw |-> views[c], made |-> 0, reply |-> "none"]
           n == Len(edits) + 1
           t == [at |-> "read", edit |-> n, image |-> None, latest |-> 0, wrote |-> FALSE]
<1>2. /\ txn[c].at = "idle" /\ views[c] # None
      /\ txn' = [txn EXCEPT ![c] = t]
      /\ UNCHANGED <<kind, row, revisions, holder, views>>
  BY DEF Send
<1>3. views[c] \in Rows /\ Seen(views[c])
  BY <1>2 DEF RowsOK, Client
<1>4. command \in AnyCommand
  BY DEF Commands, AnyCommand
<1>5. e \in EditRow /\ e.saw = views[c] /\ e.command = command /\ e.reply = "none"
  BY <1>3, <1>4 DEF EditRow
<1>6. Edited(e)
  BY <1>3, <1>5 DEF Edited
<1>7. n \in Nat
  BY DEF RowsOK
<1>8. t \in TxnRow /\ t.at = "read" /\ t.edit = n /\ t.wrote = FALSE
  BY <1>7 DEF TxnRow
<1>9. edits' = Append(edits, e)
  BY <1>1
<1> HIDE DEF e, t
<1>10. /\ edits' \in Seq(EditRow) /\ DOMAIN edits' = 1 .. n /\ edits'[n] = e
       /\ DOMAIN edits = 1 .. Len(edits) /\ Len(edits') = n
       /\ \A i \in DOMAIN edits : edits'[i] = edits[i]
  BY <1>5, <1>9 DEF RowsOK
<1>11. n \in DOMAIN edits' /\ DOMAIN edits \subseteq DOMAIN edits'
       /\ \A i \in DOMAIN edits' : i = n \/ i \in DOMAIN edits
  BY <1>7, <1>10 DEF RowsOK
<1>12. \A i \in DOMAIN edits' : Edited(edits'[i])
  BY <1>6, <1>10, <1>11
<1>13. Client(c)'
  <2>1. txn'[c] = t
    BY <1>2 DEF RowsOK
  <2>2. holder # c
    BY <1>2 DEF Client, Holds, Held, Late
  <2>3. views'[c] # None => Seen(views[c])'
    BY <1>2, <1>3 DEF Seen
  <2> QED
    BY <1>2, <1>8, <1>11, <2>1, <2>2, <2>3 DEF Client, Imaged, Held, Late
<1>14. kind = "industry" => OneEditPerVersion'
  BY <1>5, <1>10, <1>11 DEF OneEditPerVersion, Accepted
<1>15. holder' \in {holder, c}
  BY <1>2
<1>16. \A d \in Clients : holder' = c /\ holder = d => d = c
  BY <1>2
<1> QED
  BY <1>2, <1>8, <1>10, <1>11, <1>12, <1>13, <1>14, <1>15, <1>16, OthersStay

LEMMA ReadKeeps ==
    ASSUME WorkspaceInv, NEW c \in Clients, Read(c) PROVE WorkspaceInv'
<1> USE DEF WorkspaceInv
<1> DEFINE t == [at |-> "update", edit |-> txn[c].edit, image |-> row,
                 latest |-> 0, wrote |-> FALSE]
<1>1. txn[c].at = "read" /\ Client(c)
  BY DEF Read
<1>2. CASE Legal(Edit(c).command, row.status)
  <2>1. txn' = [txn EXCEPT ![c] = t] /\ UNCHANGED <<kind, row, revisions, holder, views, edits>>
    BY <1>2 DEF Read, Goto
  <2>2. row \in Rows /\ row.version \in Nat /\ txn[c].edit \in Nat
    BY DEF RowsOK, Rows, TxnRow
  <2>3. t \in TxnRow /\ t.at = "update" /\ t.edit = txn[c].edit /\ t.image = row /\ ~t.wrote
    BY <2>2 DEF TxnRow, Imaged
  <2> HIDE DEF t
  <2>4. txn'[c] = t
    BY <2>1 DEF RowsOK
  <2>5. Edit(c)' = Edit(c) /\ txn[c].edit \in DOMAIN edits
    BY <1>1, <2>1, <2>3, <2>4 DEF Edit, Client
  <2>6. Edit(c).saw.version <= row.version
    BY <2>5 DEF Edit, Edited, Seen
  <2>7. Waits(c)'
    BY <1>2, <2>1, <2>3, <2>4, <2>5, <2>6 DEF Waits, Legal
  <2>8. holder # c
    BY <1>1 DEF Client, Holds, Held, Late
  <2>9. views'[c] # None => Seen(views[c])'
    BY <1>1, <2>1 DEF Client, Seen
  <2>10. Client(c)'
    BY <2>1, <2>2, <2>3, <2>4, <2>5, <2>7, <2>8, <2>9 DEF Client, Held, Late
  <2> QED
    BY <2>1, <2>3, <2>10, OneGoesOn
<1>3. CASE ~Legal(Edit(c).command, row.status)
  <2>1. Answer(c, "refused")
    BY <1>3 DEF Read
  <2> QED
    BY <1>1, <2>1, AnswerKeeps
<1> QED
  BY <1>2, <1>3

\* The image of an UPDATE is a row, and a legal next version of the one there.
LEMMA UpdatedNext ==
    ASSUME WorkspaceInv, NEW new \in Statuses,
           new = row.status \/ LegalMove(row.status, new)
    PROVE  /\ Updated(new) \in Rows
           /\ Updated(new).current = row.current
           /\ Updated(new).version = row.version + 1
           /\ Next1(Updated(new))
<1>1. row.version \in Nat /\ row.current \in Nat
  BY DEF WorkspaceInv, RowsOK, Rows
<1>2. /\ Updated(new) \in Rows /\ Updated(new).current = row.current
      /\ Updated(new).version = row.version + 1 /\ Updated(new).status = new
  BY <1>1 DEF Updated, Rows
<1> QED
  BY <1>2 DEF Next1

LEMMA UpdateIndustryKeeps ==
    ASSUME WorkspaceInv, NEW c \in Clients, UpdateIndustry(c) PROVE WorkspaceInv'
<1> USE DEF WorkspaceInv
<1>1. kind = "industry" /\ txn[c].at = "update" /\ holder = None /\ Client(c)
  BY DEF UpdateIndustry
<1>2. CASE Matches(c)
  <2> DEFINE to == Target(Edit(c).command, txn[c].image.status)
             place == IF Edit(c).command.move = None THEN "latest" ELSE "commit"
             t == [at |-> place, edit |-> txn[c].edit, image |-> Updated(to),
                   latest |-> 0, wrote |-> FALSE]
  <2>1. /\ txn' = [txn EXCEPT ![c] = t] /\ holder' = c
        /\ UNCHANGED <<kind, row, revisions, views, edits>>
    BY <1>1, <1>2 DEF UpdateIndustry, Goto
  <2>2. /\ Waits(c) /\ txn[c].edit \in DOMAIN edits /\ txn[c].image \in Rows
        /\ txn[c].image.version <= row.version
    BY <1>1, WorkspaceAssumption DEF Client, Imaged
  <2>3. Edited(Edit(c)) /\ Edit(c).saw.version = row.version
    BY <1>2, <2>2 DEF Edit, Matches
  <2>4. txn[c].image.status = row.status /\ row.status \in Statuses /\ Legal(Edit(c).command, row.status)
    BY <2>2, <2>3 DEF Waits, Rows, RowsOK
  <2>5. to \in Statuses /\ (to = row.status \/ LegalMove(row.status, to))
    BY <2>3, <2>4, TargetLegal DEF Edited, RowsOK
  <2> HIDE DEF to
  <2>6. /\ Updated(to) \in Rows /\ Updated(to).current = row.current
        /\ Updated(to).version = row.version + 1 /\ Next1(Updated(to))
    BY <2>5, UpdatedNext
  <2>7. place \in {"latest", "commit"} /\ txn[c].edit \in Nat /\ row.version \in Nat
    BY DEF RowsOK, TxnRow, Rows
  <2> HIDE DEF place
  <2>8. /\ t \in TxnRow /\ t.at \in {"latest", "commit"} /\ t.edit = txn[c].edit
        /\ t.image = Updated(to) /\ ~t.wrote
    BY <2>6, <2>7 DEF TxnRow, Imaged, Held, Late
  <2> HIDE DEF t
  <2>9. txn'[c] = t
    BY <2>1 DEF RowsOK
  <2>10. Edit(c)' = Edit(c)
    BY <2>1, <2>8, <2>9 DEF Edit
  <2>11. Holds(c)'
    BY <2>1, <2>6, <2>8, <2>9 DEF Holds, Next1, LegalMove, Held, Late
  <2>12. Locked(c)'
    BY <2>1, <2>3, <2>6, <2>8, <2>9, <2>10 DEF Locked
  <2>13. views'[c] # None => Seen(views[c])'
    BY <1>1, <2>1 DEF Client, Seen
  <2>14. Client(c)'
    BY <2>1, <2>2, <2>6, <2>8, <2>9, <2>11, <2>12, <2>13 DEF Client
  <2> QED
    BY <1>1, <2>1, <2>8, <2>14, OneGoesOn
<1>3. CASE ~Matches(c)
  <2>1. Answer(c, "conflict")
    BY <1>3 DEF UpdateIndustry
  <2> QED
    BY <1>1, <2>1, AnswerKeeps
<1> QED
  BY <1>2, <1>3

LEMMA UpdateRowKeeps ==
    ASSUME WorkspaceInv, NEW c \in Clients, UpdateRow(c) PROVE WorkspaceInv'
<1> USE DEF WorkspaceInv
<1>1. kind # "industry" /\ txn[c].at = "update" /\ holder = None /\ Client(c)
  BY DEF UpdateRow
<1>2. /\ Waits(c) /\ txn[c].edit \in DOMAIN edits /\ txn[c].image \in Rows
      /\ txn[c].image.version <= row.version
  BY <1>1, WorkspaceAssumption DEF Client, Imaged
<1>3. txn[c].edit \in Nat /\ row.version \in Nat /\ row.status \in Statuses
  BY DEF RowsOK, TxnRow, Rows
<1>4. views'[c] # None => Seen(views[c])'
  BY <1>1 DEF Client, Seen, UpdateRow
<1>5. CASE Matches(c)
  <2> DEFINE to == Target(Edit(c).command, row.status)
             written == IF kind = "topic" /\ to = txn[c].image.status THEN row.status ELSE to
             t == [at |-> "readback", edit |-> txn[c].edit, image |-> Updated(written),
                   latest |-> 0, wrote |-> FALSE]
  <2>1. /\ txn' = [txn EXCEPT ![c] = t] /\ holder' = c
        /\ UNCHANGED <<kind, row, revisions, views, edits>>
    BY <1>1, <1>5 DEF UpdateRow, Goto
  <2>2. Edited(Edit(c)) /\ Edit(c).saw.version = row.version
    BY <1>2, <1>5 DEF Edit, Matches
  <2>3. txn[c].image.status = row.status /\ Legal(Edit(c).command, row.status)
    BY <1>2, <1>3, <2>2 DEF Waits, Rows
  <2>4. to \in Statuses /\ (to = row.status \/ LegalMove(row.status, to))
    BY <1>3, <2>2, <2>3, TargetLegal DEF Edited, RowsOK
  <2> HIDE DEF to
  <2>5. written \in Statuses /\ (written = row.status \/ LegalMove(row.status, written))
    BY <1>3, <2>4
  <2> HIDE DEF written
  <2>6. /\ Updated(written) \in Rows /\ Updated(written).current = row.current
        /\ Updated(written).version = row.version + 1 /\ Next1(Updated(written))
    BY <2>5, UpdatedNext
  <2>7. /\ t \in TxnRow /\ t.at = "readback" /\ t.edit = txn[c].edit
        /\ t.image = Updated(written) /\ ~t.wrote
    BY <1>3, <2>6 DEF TxnRow, Imaged, Held
  <2> HIDE DEF t
  <2>8. txn'[c] = t
    BY <2>1 DEF RowsOK
  <2>9. Holds(c)'
    BY <2>1, <2>6, <2>7, <2>8 DEF Holds, Next1, LegalMove, Held
  <2>10. Client(c)'
    BY <1>1, <1>2, <1>4, <2>1, <2>6, <2>7, <2>8, <2>9 DEF Client
  <2> QED
    BY <1>1, <2>1, <2>7, <2>10, OneGoesOn
<1>6. CASE ~Matches(c)
  <2> DEFINE t == [at |-> "readback", edit |-> txn[c].edit, image |-> txn[c].image,
                   latest |-> 0, wrote |-> FALSE]
  <2>1. /\ txn' = [txn EXCEPT ![c] = t] /\ holder' = holder
        /\ UNCHANGED <<kind, row, revisions, views, edits>>
    BY <1>1, <1>6 DEF UpdateRow, Goto
  <2>2. /\ t \in TxnRow /\ t.at = "readback" /\ t.edit = txn[c].edit
        /\ t.image = txn[c].image /\ ~t.wrote
    BY <1>2, <1>3 DEF TxnRow, Imaged, Held
  <2> HIDE DEF t
  <2>3. txn'[c] = t /\ holder' # c
    BY <1>1, <2>1, WorkspaceAssumption DEF RowsOK
  <2>4. Client(c)'
    BY <1>1, <1>2, <1>4, <2>1, <2>2, <2>3 DEF Client
  <2> QED
    BY <2>1, <2>2, <2>4, OneGoesOn
<1> QED
  BY <1>5, <1>6

LEMMA ReadBackKeeps ==
    ASSUME WorkspaceInv, NEW c \in Clients, ReadBack(c) PROVE WorkspaceInv'
<1> USE DEF WorkspaceInv
<1>1. txn[c].at = "readback" /\ Client(c) /\ kind # "industry"
  BY DEF ReadBack, Client
<1>2. CASE Visible(c).version = Edit(c).saw.version + 1
  <2> DEFINE place == IF Revised THEN "latest" ELSE "commit"
             t == [at |-> place, edit |-> txn[c].edit, image |-> Visible(c),
                   latest |-> 0, wrote |-> FALSE]
  <2>1. /\ txn' = [txn EXCEPT ![c] = t]
        /\ UNCHANGED <<kind, row, revisions, holder, views, edits>>
    BY <1>2 DEF ReadBack, Goto
  <2>2. row \in Rows /\ row.version \in Nat /\ txn[c].edit \in Nat /\ txn[c].image \in Rows
        /\ txn[c].edit \in DOMAIN edits
    BY <1>1 DEF RowsOK, Rows, TxnRow, Client, Imaged, Held
  <2>3. Visible(c) \in Rows /\ place \in {"latest", "commit"}
    BY <2>2 DEF Visible
  <2> HIDE DEF place
  <2>4. /\ t \in TxnRow /\ t.at \in {"latest", "commit"} /\ t.edit = txn[c].edit
        /\ t.image = Visible(c) /\ ~t.wrote
    BY <2>2, <2>3 DEF TxnRow, Imaged, Held, Late
  <2> HIDE DEF t
  <2>5. txn'[c] = t
    BY <2>1 DEF RowsOK
  <2>6. views'[c] # None => Seen(views[c])'
    BY <1>1, <2>1 DEF Client, Seen
  <2>7. holder = c => Holds(c)'
    BY <1>1, <2>1, <2>4, <2>5 DEF Client, Holds, Next1, LegalMove, Held, Late, Visible
  <2>8. holder # c => t.image.version <= row.version
    BY <2>2, <2>4 DEF Visible
  <2>9. Client(c)'
    BY <1>1, <2>1, <2>2, <2>3, <2>4, <2>5, <2>6, <2>7, <2>8 DEF Client
  <2> QED
    BY <2>1, <2>4, <2>9, OneGoesOn
<1>3. CASE Visible(c).version # Edit(c).saw.version + 1
  <2>1. Answer(c, "conflict")
    BY <1>3 DEF ReadBack
  <2> QED
    BY <1>1, <2>1, AnswerKeeps
<1> QED
  BY <1>2, <1>3

LEMMA LatestKeeps ==
    ASSUME WorkspaceInv, NEW c \in Clients, Latest(c) PROVE WorkspaceInv'
<1> USE DEF WorkspaceInv
<1> DEFINE place == IF Edit(c).command.text THEN "insert" ELSE "commit"
           t == [at |-> place, edit |-> txn[c].edit, image |-> txn[c].image,
                 latest |-> Len(revisions), wrote |-> FALSE]
<1>1. /\ txn[c].at = "latest" /\ Client(c)
      /\ txn' = [txn EXCEPT ![c] = t]
      /\ UNCHANGED <<kind, row, revisions, holder, views, edits>>
  BY DEF Latest, Goto
<1>2. txn[c].edit \in Nat /\ txn[c].image \in Rows /\ txn[c].edit \in DOMAIN edits
      /\ Len(revisions) \in Nat /\ txn[c].at \in Late
  BY <1>1 DEF RowsOK, TxnRow, Client, Imaged, Held, Late
<1>3. place \in {"insert", "commit"}
  OBVIOUS
<1> HIDE DEF place
<1>4. /\ t \in TxnRow /\ t.at \in {"insert", "commit"} /\ t.edit = txn[c].edit
      /\ t.image = txn[c].image /\ ~t.wrote
  BY <1>2, <1>3 DEF TxnRow, Imaged, Held, Late
<1> HIDE DEF t
<1>5. txn'[c] = t
  BY <1>1 DEF RowsOK
<1>6. views'[c] # None => Seen(views[c])'
  BY <1>1 DEF Client, Seen
<1>7. holder = c => Holds(c)'
  BY <1>1, <1>4, <1>5 DEF Client, Holds, Next1, LegalMove, Held, Late
<1>8. kind = "industry" => Locked(c)'
  BY <1>1, <1>2, <1>4, <1>5 DEF Client, Locked, Edit
<1>9. holder # c => t.image.version <= row.version
  BY <1>1, <1>2, <1>4 DEF Client, Imaged, Held
<1>10. Client(c)'
  BY <1>1, <1>2, <1>4, <1>5, <1>6, <1>7, <1>8, <1>9 DEF Client
<1> QED
  BY <1>1, <1>4, <1>10, OneGoesOn

\* An insert that does not fail is the only one that is not committed.
LEMMA InsertRevisionKeeps ==
    ASSUME WorkspaceInv, NEW c \in Clients, InsertRevision(c) PROVE WorkspaceInv'
<1> USE DEF WorkspaceInv
<1>1. txn[c].at = "insert" /\ Client(c)
  BY DEF InsertRevision
<1>2. CASE Len(revisions) = txn[c].latest
  <2> DEFINE t == [at |-> "pointer", edit |-> txn[c].edit, image |-> txn[c].image,
                   latest |-> txn[c].latest, wrote |-> TRUE]
  <2>1. /\ txn' = [txn EXCEPT ![c] = t]
        /\ UNCHANGED <<kind, row, revisions, holder, views, edits>>
    BY <1>2 DEF InsertRevision, Goto
  <2>2. txn[c].edit \in Nat /\ txn[c].image \in Rows /\ txn[c].edit \in DOMAIN edits
        /\ txn[c].latest \in Nat /\ txn[c].at \in Late
    BY <1>1 DEF RowsOK, TxnRow, Client, Imaged, Held, Late
  <2>3. /\ t \in TxnRow /\ t.at = "pointer" /\ t.edit = txn[c].edit
        /\ t.image = txn[c].image /\ t.latest = txn[c].latest /\ t.wrote
    BY <2>2 DEF TxnRow, Imaged, Held, Late
  <2> HIDE DEF t
  <2>4. txn'[c] = t
    BY <2>1 DEF RowsOK
  <2>5. ASSUME NEW d \in Clients, d # c PROVE ~txn[d].wrote
    BY <1>2, <2>5 DEF InsertRevision, Client, Wrote
  <2>6. views'[c] # None => Seen(views[c])'
    BY <1>1, <2>1 DEF Client, Seen
  <2>7. holder = c => Holds(c)'
    BY <1>1, <2>1, <2>3, <2>4 DEF Client, Holds, Next1, LegalMove, Held, Late
  <2>8. kind = "industry" => Locked(c)'
    BY <1>1, <2>1, <2>2, <2>3, <2>4 DEF Client, Locked, Edit
  <2>9. holder # c => t.image.version <= row.version
    BY <1>1, <2>2, <2>3 DEF Client, Imaged, Held
  <2>10. Wrote(c)'
    BY <1>2, <2>1, <2>3, <2>4 DEF Wrote
  <2>11. Client(c)'
    BY <2>1, <2>2, <2>3, <2>4, <2>6, <2>7, <2>8, <2>9, <2>10 DEF Client
  <2> QED
    BY <2>1, <2>3, <2>5, <2>11, OneGoesOn
<1>3. CASE Len(revisions) # txn[c].latest
  <2>1. Answer(c, "error")
    BY <1>3 DEF InsertRevision
  <2> QED
    BY <1>1, <2>1, AnswerKeeps
<1> QED
  BY <1>2, <1>3

LEMMA MovePointerKeeps ==
    ASSUME WorkspaceInv, NEW c \in Clients, MovePointer(c) PROVE WorkspaceInv'
<1> USE DEF WorkspaceInv
<1>1. txn[c].at = "pointer" /\ holder \in {None, c} /\ Client(c)
  BY DEF MovePointer
<1>2. CASE Visible(c).version = txn[c].image.version
  <2> DEFINE revision == txn[c].latest + 1
             image == Pointed(Visible(c), revision)
             t == [at |-> "commit", edit |-> txn[c].edit, image |-> image,
                   latest |-> txn[c].latest, wrote |-> TRUE]
  <2>1. /\ txn' = [txn EXCEPT ![c] = t] /\ holder' = c
        /\ UNCHANGED <<kind, row, revisions, views, edits>>
    BY <1>2 DEF MovePointer, Goto
  <2>2. row \in Rows /\ row.version \in Nat /\ txn[c].edit \in Nat /\ txn[c].image \in Rows
        /\ txn[c].edit \in DOMAIN edits /\ txn[c].latest \in Nat /\ txn[c].at \in Late
    BY <1>1 DEF RowsOK, Rows, TxnRow, Client, Imaged, Held, Late
  <2>3. Visible(c) \in Rows /\ revision \in Nat
    BY <2>2 DEF Visible
  <2>4. /\ image \in Rows /\ image.current = revision
        /\ image.version = Visible(c).version /\ image.status = Visible(c).status
    BY <2>3 DEF Pointed, Rows
  <2> HIDE DEF image
  <2>5. /\ t \in TxnRow /\ t.at = "commit" /\ t.edit = txn[c].edit
        /\ t.image = image /\ t.latest = txn[c].latest /\ t.wrote
    BY <2>2, <2>4 DEF TxnRow, Imaged, Held, Late
  <2> HIDE DEF t
  <2>6. txn'[c] = t
    BY <2>1 DEF RowsOK
  <2>7. txn[c].wrote /\ Wrote(c) /\ \A d \in Clients : d # c => ~txn[d].wrote
    BY <1>1 DEF Client
  <2>8. Next1(image)
    BY <1>1, <2>4 DEF Client, Holds, Visible, Next1
  <2>9. Holds(c)'
    BY <2>1, <2>5, <2>6, <2>8 DEF Holds, Next1, LegalMove, Held, Late
  <2>10. Wrote(c)'
    BY <2>1, <2>4, <2>5, <2>6, <2>7 DEF Wrote
  <2>11. kind = "industry" => Locked(c)'
    BY <1>1, <2>1, <2>2, <2>4, <2>5, <2>6 DEF Client, Locked, Edit, Visible
  <2>12. views'[c] # None => Seen(views[c])'
    BY <1>1, <2>1 DEF Client, Seen
  <2>13. Client(c)'
    BY <2>1, <2>2, <2>4, <2>5, <2>6, <2>9, <2>10, <2>11, <2>12 DEF Client
  <2> QED
    BY <1>1, <2>1, <2>5, <2>7, <2>13, OneGoesOn
<1>3. CASE Visible(c).version # txn[c].image.version
  <2>1. Answer(c, "conflict")
    BY <1>3 DEF MovePointer
  <2> QED
    BY <1>1, <2>1, AnswerKeeps
<1> QED
  BY <1>2, <1>3

\* The commit of the client that holds the lock makes its image the row; the
\* commit of one that does not leaves the row, and has written no revision.
LEMMA CommittedRow ==
    ASSUME WorkspaceInv, NEW c \in Clients, Commit(c)
    PROVE  /\ row' \in Rows /\ row.version \in Nat /\ row'.version \in Nat
           /\ row.version <= row'.version
           /\ row'.version = row.version => row'.status = row.status
           /\ row'.status = row.status \/ LegalMove(row.status, row'.status)
           /\ holder # c => row' = row
           /\ kind = "industry" =>
                 /\ holder = c /\ row' = txn[c].image
                 /\ row'.version = row.version + 1 /\ Edit(c).saw.version = row.version
           /\ txn[c].image.version <= row'.version
<1> USE DEF WorkspaceInv
<1>1. txn[c].at = "commit" /\ Client(c) /\ row' = Visible(c) /\ row \in Rows
  BY DEF Commit, RowsOK
<1>2. txn[c].image \in Rows /\ txn[c].at \in Late
  BY <1>1 DEF Client, Imaged, Held, Late
<1>3. CASE holder = c
  BY <1>1, <1>2, <1>3 DEF Visible, Client, Holds, Next1, Locked, Rows
<1>4. CASE holder # c
  BY <1>1, <1>2, <1>4 DEF Visible, Client, Locked, Rows, Imaged, Held
<1> QED
  BY <1>3, <1>4

LEMMA CommitKeeps ==
    ASSUME WorkspaceInv, NEW c \in Clients, Commit(c) PROVE WorkspaceInv'
<1> USE DEF WorkspaceInv
<1> DEFINE i == txn[c].edit
           made == IF txn[c].wrote THEN txn[c].latest + 1 ELSE 0
           e == [command |-> edits[i].command, saw |-> edits[i].saw,
                 made |-> made, reply |-> "ok"]
<1>1. /\ txn[c].at = "commit" /\ Client(c)
      /\ txn' = [txn EXCEPT ![c] = Idle]
      /\ edits' = [edits EXCEPT ![i] = e]
      /\ holder' = IF holder = c THEN None ELSE holder
      /\ views' = [views EXCEPT ![c] = txn[c].image]
      /\ revisions' = IF txn[c].wrote THEN Append(revisions, txn[c].edit) ELSE revisions
      /\ kind' = kind
  BY DEF Commit, End, Edit
<1>2. i \in DOMAIN edits /\ i \in Nat /\ txn[c].image \in Rows /\ txn[c].latest \in Nat
  BY <1>1 DEF Client, Imaged, Held, Late, RowsOK, TxnRow
<1>3. edits[i] \in EditRow /\ Edited(edits[i]) /\ made \in Nat
  BY <1>2 DEF RowsOK
<1>4. txn[c].wrote => Wrote(c)
  BY <1>1 DEF Client
<1>5. Edit(c) = edits[i]
  BY DEF Edit
<1> HIDE DEF made
<1>6. e \in EditRow /\ e.saw = edits[i].saw /\ e.command = edits[i].command
      /\ e.reply = "ok" /\ e.made = made
  BY <1>3 DEF EditRow
<1> HIDE DEF e, i
<1>7. /\ edits' \in Seq(EditRow) /\ DOMAIN edits' = DOMAIN edits /\ edits'[i] = e
      /\ Len(edits') = Len(edits)
      /\ \A k \in DOMAIN edits : k # i => edits'[k] = edits[k]
  BY <1>1, <1>2, <1>6 DEF RowsOK
<1>8. \A k \in DOMAIN edits : /\ edits'[k].saw = edits[k].saw
                              /\ edits'[k].command = edits[k].command
  BY <1>6, <1>7
<1>9. /\ row' \in Rows /\ row.version \in Nat /\ row'.version \in Nat
      /\ row.version <= row'.version
      /\ row'.version = row.version => row'.status = row.status
      /\ holder # c => row' = row
      /\ kind = "industry" => /\ holder = c /\ row' = txn[c].image
                              /\ row'.version = row.version + 1
                              /\ edits[i].saw.version = row.version
      /\ txn[c].image.version <= row'.version
  BY <1>5, CommittedRow
<1>10. RowsOK'
  <2>1. Idle \in TxnRow
    BY DEF Idle, TxnRow
  <2>2. revisions' \in Seq(Nat)
    BY <1>1, <1>2 DEF RowsOK, i
  <2>3. holder' \in Clients \cup {None} /\ txn' \in [Clients -> TxnRow]
        /\ views' \in [Clients -> Rows \cup {None}]
    BY <1>1, <1>2, <2>1 DEF RowsOK
  <2> QED
    BY <1>1, <1>7, <1>9, <2>2, <2>3 DEF RowsOK
<1>11. PointerIsLatest'
  <2>1. row' = IF holder = c THEN txn[c].image ELSE row
    BY DEF Commit, Visible
  <2>2. revisions \in Seq(Nat)
    BY DEF RowsOK
  <2> QED
    BY <1>1, <1>2, <1>4, <2>1, <2>2 DEF Wrote, Client, Holds, PointerIsLatest, i
<1>12. ASSUME NEW v \in Rows, Seen(v) PROVE Seen(v)'
  BY <1>1, <1>9, <1>12 DEF Seen, Rows
<1>13. \A k \in DOMAIN edits' : Edited(edits[k])'
  <2> SUFFICES ASSUME NEW k \in DOMAIN edits PROVE Edited(edits[k])'
    BY <1>7
  <2>0. edits[k] \in EditRow
    BY DEF RowsOK
  <2>1. Edited(edits[k]) /\ edits[k].saw \in Rows /\ edits[k].saw.version \in Nat
    BY <2>0 DEF EditRow, Rows
  <2>2. Seen(edits[k].saw)'
    BY <1>8, <1>12, <2>1 DEF Edited
  <2>3. edits'[k].command \in Commands'
    BY <1>1, <1>8, <2>1 DEF Edited, Commands
  <2>4. CASE k # i
    BY <1>1, <1>7, <1>9, <2>1, <2>2, <2>3, <2>4 DEF Edited
  <2>5. CASE k = i
    <3>1. ASSUME kind = "industry", made # 0 PROVE made = edits[i].saw.current + 1
      <4>1. txn[c].wrote /\ made = txn[c].latest + 1 /\ txn[c].latest = Len(revisions)
        BY <1>4, <3>1 DEF made, Wrote
      <4>2. edits[i].saw.current = row.current
        BY <1>3, <1>9, <3>1 DEF Edited, Seen
      <4> QED
        BY <4>1, <4>2 DEF PointerIsLatest
    <3> QED
      BY <1>1, <1>6, <1>7, <1>9, <2>1, <2>2, <2>3, <2>5, <3>1 DEF Edited
  <2> QED
    BY <2>4, <2>5
<1>14. kind' = "industry" => OneEditPerVersion'
  <2> SUFFICES ASSUME kind = "industry", NEW j \in DOMAIN edits, NEW k \in DOMAIN edits,
                      edits'[j].reply = "ok", edits'[k].reply = "ok",
                      edits'[j].saw.version = edits'[k].saw.version
               PROVE  j = k
    BY <1>1, <1>7 DEF OneEditPerVersion, Accepted, RowsOK
  <2>1. \A m \in DOMAIN edits : edits[m].reply = "ok" => edits[m].saw.version < row.version
    BY DEF Edited
  <2>2. edits[i].saw.version = row.version
    BY <1>9
  <2>0. \A m \in DOMAIN edits : edits[m] \in EditRow
    BY DEF RowsOK
  <2>3. \A m \in DOMAIN edits : edits[m].saw.version \in Nat
    BY <2>0 DEF EditRow, Rows
  <2>4. OneEditPerVersion /\ DOMAIN edits = 1 .. Len(edits)
    BY DEF RowsOK
  <2>5. CASE j # i /\ k # i
    BY <1>7, <2>4, <2>5 DEF OneEditPerVersion, Accepted
  <2>6. CASE j = i /\ k # i
    BY <1>7, <1>8, <1>9, <2>1, <2>2, <2>3, <2>6
  <2>7. CASE j # i /\ k = i
    BY <1>7, <1>8, <1>9, <2>1, <2>2, <2>3, <2>7
  <2> QED
    BY <2>5, <2>6, <2>7
<1>15. Idle.at = "idle" /\ ~Idle.wrote
  BY DEF Idle
<1>16. Client(c)'
  <2>1. txn'[c] = Idle /\ holder' # c /\ views'[c] = txn[c].image
    BY <1>1, WorkspaceAssumption DEF RowsOK
  <2>3. views'[c] # None => Seen(views[c])'
    BY <1>1, <1>9, <2>1 DEF Seen
  <2> QED
    BY <1>15, <2>1, <2>3 DEF Client, Imaged, Held, Late
<1>17. ASSUME NEW d \in Clients, d # c PROVE Client(d)'
  <2>1. txn'[d] = txn[d] /\ views'[d] = views[d] /\ Client(d)
    BY <1>1, <1>17 DEF RowsOK
  <2>2. holder' = d <=> holder = d
    BY <1>1, <1>17, WorkspaceAssumption
  <2>3. views[d] \in Rows \cup {None}
    BY DEF RowsOK
  <2>4. views'[d] # None => Seen(views[d])'
    BY <1>12, <2>1, <2>3 DEF Client
  <2>5. /\ txn'[d].at # "idle" => txn'[d].edit \in DOMAIN edits'
        /\ txn'[d].at # "idle" => Edit(d)'.saw = Edit(d).saw
        /\ txn'[d].at # "idle" => Edit(d)'.command = Edit(d).command
    BY <1>7, <1>8, <2>1 DEF Client, Edit
  <2>6. txn[d].at \in Imaged => txn[d].image \in Rows /\ txn[d].image.version \in Nat
    BY <2>1 DEF Client, Rows
  <2>7. txn'[d].at \in Imaged /\ holder' # d => txn'[d].image.version <= row'.version
    BY <1>9, <2>1, <2>2, <2>6 DEF Client
  <2>8. holder' = d => Holds(d)'
    BY <1>1, <1>9, <1>17, <2>1, <2>2 DEF Client, Holds, Next1, LegalMove
  <2>9. txn'[d].wrote => Wrote(d)'
    BY <1>1, <1>17, <2>1, <2>2 DEF Client, Wrote
  <2>10. txn'[d].at = "update" => Waits(d)'
    <3> SUFFICES ASSUME txn[d].at = "update" PROVE Waits(d)'
      BY <2>1
    <3>1. Waits(d) /\ txn[d].at \in Imaged /\ holder # d
      BY <2>1 DEF Client, Imaged, Holds, Held, Late
    <3>2. txn[d].image.version <= row.version /\ txn[d].image.version \in Nat
      BY <2>1, <2>6, <3>1 DEF Client
    <3>3. txn[d].image.version = row'.version => txn[d].image.status = row'.status
      BY <1>9, <3>1, <3>2 DEF Waits
    <3> QED
      BY <1>1, <2>1, <2>5, <3>1, <3>3 DEF Waits, Legal
  <2>11. kind' = "industry" => txn'[d].at # "readback" /\ (txn'[d].at \in Late => Locked(d)')
    BY <1>1, <1>9, <1>17, <2>1 DEF Client, Locked
  <2> QED
    BY <2>1, <2>2, <2>4, <2>5, <2>7, <2>8, <2>9, <2>10, <2>11 DEF Client
<1>18. \A d, f \in Clients : txn'[d].wrote /\ txn'[f].wrote => d = f
  BY <1>1, <1>15 DEF RowsOK
<1> QED
  BY <1>10, <1>11, <1>13, <1>14, <1>16, <1>17, <1>18

LEMMA WorkspaceNext == WorkspaceInv /\ [Next]_vars => WorkspaceInv'
<1> SUFFICES ASSUME WorkspaceInv, [Next]_vars PROVE WorkspaceInv'
  OBVIOUS
<1>1. CASE UNCHANGED vars
  <2>1. UNCHANGED <<kind, row, revisions, holder, views, edits, txn>>
    BY <1>1 DEF vars
  <2>2. RowsOK' /\ PointerIsLatest' /\ (kind' = "industry" => OneEditPerVersion')
    BY <2>1 DEF WorkspaceInv, RowsOK, PointerIsLatest, OneEditPerVersion, Accepted
  <2>3. \A i \in DOMAIN edits' : Edited(edits[i])'
    BY <2>1 DEF WorkspaceInv, Edited, Seen, Commands
  <2>4. ASSUME NEW c \in Clients PROVE Client(c)'
    BY <2>1 DEF WorkspaceInv, Client, Seen, Holds, Next1, LegalMove, Wrote, Waits, Legal,
                Edit, Locked
  <2> QED
    BY <2>1, <2>2, <2>3, <2>4 DEF WorkspaceInv
<1>2. ASSUME NEW c \in Clients, Abort(c) PROVE WorkspaceInv'
  BY <1>2, AnswerKeeps DEF Abort
<1> QED
  BY <1>1, <1>2, LookKeeps, SendKeeps, ReadKeeps, UpdateIndustryKeeps, UpdateRowKeeps,
     ReadBackKeeps, LatestKeeps, InsertRevisionKeeps, MovePointerKeeps, CommitKeeps DEF Next

----------------------------------------------------------------------------
\* Of the edits of an industry that carry one version one is accepted, an
\* accepted edit of its content follows the revision its client had in view,
\* and the current revision of an industry or a topic is the latest, however
\* many clients send their edits at once (update_industry,
\* append_industry_revision, append_topic_revision).
THEOREM EditsAreOrdered == Spec => []EditsSeeTheirBase
<1>1. WorkspaceInv => EditsSeeTheirBase
  <2> SUFFICES ASSUME WorkspaceInv PROVE EditsSeeTheirBase
    OBVIOUS
  <2>1. kind = "industry" => NothingUnseenReplaced
    BY DEF WorkspaceInv, RowsOK, Edited, NothingUnseenReplaced, Accepted
  <2> QED
    BY <2>1 DEF WorkspaceInv, EditsSeeTheirBase
<1> QED
  BY <1>1, WorkspaceInit, WorkspaceNext, PTL DEF Spec

\* The status of a row moves only along the tables of its kind, although the
\* move was checked on a row read before the UPDATE waited for its lock
\* (WorkspaceService.lifecycle, patch_topic).
THEOREM MovesAreLegal == Spec => LegalMovesOnly
<1>1. WorkspaceInv /\ [Next]_vars =>
          [row'.status # row.status => LegalMove(row.status, row'.status)]_vars
  <2> SUFFICES ASSUME WorkspaceInv, Next, row'.status # row.status
               PROVE  LegalMove(row.status, row'.status)
    OBVIOUS
  <2>1. ASSUME NEW c \in Clients, Commit(c)
        PROVE  row'.status = row.status \/ LegalMove(row.status, row'.status)
    BY <2>1, CommittedRow
  <2>2. ASSUME NEW c \in Clients,
               \/ Look(c) \/ Send(c) \/ Read(c) \/ UpdateIndustry(c) \/ UpdateRow(c)
               \/ ReadBack(c) \/ Latest(c) \/ InsertRevision(c) \/ MovePointer(c) \/ Abort(c)
        PROVE  row' = row
    BY <2>2 DEF Look, Send, Read, UpdateIndustry, UpdateRow, ReadBack, Latest,
                InsertRevision, MovePointer, Abort, Answer
  <2> QED
    BY <2>1, <2>2 DEF Next
<1> QED
  BY <1>1, WorkspaceInit, WorkspaceNext, PTL DEF Spec, LegalMovesOnly

-----------------------------------------------------------------------------
(* Scheduler.  What is on is on now, a tick's time is not later than now,   *)
(* and a key names a period of the time its tick read with: so each key, in *)
(* a tick or in a job, names a period not later than the last time on.      *)

\* The period of a key began when what it serves was still on.
InTime(key) ==
    IF key[1] = "discover" THEN key[2] <= Beat!schedule_slot(lastOn.discover)
    ELSE IF key[1] = "report_build" THEN key[2] <= Beat!local_date(lastOn.industry)
    ELSE key[2] <= Beat!schedule_slot(lastOn.industry)

IsKey(key) == key[2] \in Nat /\ InTime(key)

\* What a scheduler that is in a tick has read and may still commit.
TickInTime(s) ==
    /\ tick[s].now \in Nat /\ tick[s].now <= now
    /\ \A key \in tick[s].due \cup tick[s].inserted : IsKey(key)

BeatInv ==
    /\ now \in Nat
    /\ DOMAIN lastOn = {"discover", "industry"}
    /\ lastOn.discover \in Nat /\ lastOn.discover <= now
    /\ lastOn.industry \in Nat /\ lastOn.industry <= now
    /\ Beat!Pollable(feed, sub, industry) => lastOn.discover = now
    /\ industry = "active" => lastOn.industry = now
    /\ DOMAIN tick = Schedulers
    /\ \A s \in Schedulers : TickInTime(s)
    /\ \A key \in jobs : IsKey(key)

LEMMA DivMonotone ==
    ASSUME NEW d \in Nat \ {0}, NEW a \in Nat, NEW b \in Nat, a <= b
    PROVE  a \div d \in Nat /\ a \div d <= b \div d
<1>1. /\ a \div d \in Nat /\ a % d \in 0 .. d - 1 /\ a = d * (a \div d) + (a % d)
  BY Z3
<1>2. /\ b \div d \in Nat /\ b % d \in 0 .. d - 1 /\ b = d * (b \div d) + (b % d)
  BY Z3
<1>3. ASSUME a \div d > b \div d PROVE FALSE
  <2>1. a \div d >= (b \div d) + 1
    BY <1>1, <1>2, <1>3
  <2>2. d * (a \div d) >= d * ((b \div d) + 1)
    BY <1>1, <1>2, <2>1
  <2>3. d * ((b \div d) + 1) = d * (b \div d) + d
    BY <1>2
  <2> QED
    BY <1>1, <1>2, <2>2, <2>3
<1> QED
  BY <1>1, <1>2, <1>3

LEMMA PeriodsMonotone ==
    ASSUME NEW a \in Nat, NEW b \in Nat, a <= b
    PROVE  /\ Beat!schedule_slot(a) \in Nat /\ Beat!schedule_slot(a) <= Beat!schedule_slot(b)
           /\ Beat!schedule_slot(b) \in Nat
           /\ Beat!local_date(a) \in Nat /\ Beat!local_date(a) <= Beat!local_date(b)
           /\ Beat!local_date(b) \in Nat
  BY DivMonotone, ServicesAssumption DEF Beat!schedule_slot, Beat!local_date

LEMMA BeatInit == Beat!Init => BeatInv
<1> SUFFICES ASSUME Beat!Init PROVE BeatInv
  OBVIOUS
<1>1. /\ now = 0 /\ jobs = {} /\ lastOn = [discover |-> 0, industry |-> 0]
      /\ tick = [s \in Schedulers |-> Beat!Idle]
  BY DEF Beat!Init
<1>2. \A s \in Schedulers : TickInTime(s)
  BY <1>1 DEF TickInTime, Beat!Idle, Beat!TickAt
<1> QED
  BY <1>1, <1>2 DEF BeatInv

\* The owner and the clock only move what was last on forward.
LEMMA NotedOn ==
    ASSUME BeatInv, NEW t \in {now, now + 1}, now' = t,
           UNCHANGED <<jobs, tick>>,
           Beat!NoteOn(t, feed', sub', industry')
    PROVE  BeatInv'
<1>1. lastOn' = [discover |-> IF Beat!Pollable(feed', sub', industry') THEN t
                              ELSE lastOn.discover,
                 industry |-> IF industry' = "active" THEN t ELSE lastOn.industry]
  BY DEF Beat!NoteOn, Beat!Pollable
<1> DEFINE on == Beat!Pollable(feed', sub', industry')
<1>2. /\ lastOn'.discover = IF on THEN t ELSE lastOn.discover
      /\ lastOn'.industry = IF industry' = "active" THEN t ELSE lastOn.industry
      /\ DOMAIN lastOn' = {"discover", "industry"}
  BY <1>1
<1> HIDE DEF on
<1>3. t \in Nat /\ now <= t /\ t = now'
  BY DEF BeatInv
<1>4. /\ lastOn'.discover \in Nat /\ lastOn.discover <= lastOn'.discover
      /\ lastOn'.discover <= t
      /\ lastOn'.industry \in Nat /\ lastOn.industry <= lastOn'.industry
      /\ lastOn'.industry <= t
  BY <1>2, <1>3 DEF BeatInv
<1>5. ASSUME NEW key, IsKey(key) PROVE IsKey(key)'
  <2>1. /\ Beat!schedule_slot(lastOn.discover) <= Beat!schedule_slot(lastOn'.discover)
        /\ Beat!schedule_slot(lastOn.discover) \in Nat
        /\ Beat!schedule_slot(lastOn'.discover) \in Nat
        /\ Beat!schedule_slot(lastOn.industry) <= Beat!schedule_slot(lastOn'.industry)
        /\ Beat!schedule_slot(lastOn.industry) \in Nat
        /\ Beat!schedule_slot(lastOn'.industry) \in Nat
        /\ Beat!local_date(lastOn.industry) <= Beat!local_date(lastOn'.industry)
        /\ Beat!local_date(lastOn.industry) \in Nat
        /\ Beat!local_date(lastOn'.industry) \in Nat
    BY <1>4, PeriodsMonotone DEF BeatInv
  <2>2. key[2] \in Nat
    BY <1>5 DEF IsKey
  <2> QED
    BY <1>5, <2>1, <2>2 DEF IsKey, InTime
<1>6. \A s \in Schedulers : TickInTime(s)'
  BY <1>3, <1>5 DEF TickInTime, BeatInv
<1>7. \A key \in jobs' : IsKey(key)'
  BY <1>5 DEF BeatInv
<1>8. Beat!Pollable(feed', sub', industry') => lastOn'.discover = now'
  BY <1>2, <1>3 DEF on
<1>9. industry' = "active" => lastOn'.industry = now'
  BY <1>2, <1>3
<1> QED
  BY <1>2, <1>3, <1>4, <1>6, <1>7, <1>8, <1>9 DEF BeatInv, Beat!Pollable

\* One scheduler moves on, and nothing else that it has read changes.
LEMMA TickMoves ==
    ASSUME BeatInv, UNCHANGED <<now, feed, sub, industry, lastOn>>,
           NEW s \in Schedulers, NEW a, NEW t, NEW due, NEW inserted,
           tick' = [tick EXCEPT ![s] = Beat!TickAt(a, t, due, inserted)],
           t \in Nat, t <= now, \A key \in due \cup inserted : IsKey(key),
           \A key \in jobs' : IsKey(key)
    PROVE  BeatInv'
<1>1. /\ DOMAIN tick' = Schedulers
      /\ \A r \in Schedulers : tick'[r] = IF r = s THEN Beat!TickAt(a, t, due, inserted)
                                          ELSE tick[r]
  BY DEF BeatInv
<1>2. \A key : IsKey(key) => IsKey(key)'
  BY DEF IsKey, InTime, Beat!schedule_slot, Beat!local_date
<1>3. ASSUME NEW r \in Schedulers PROVE TickInTime(r)'
  <2>1. CASE r = s
    <3>1. tick'[r].now = t /\ tick'[r].due = due /\ tick'[r].inserted = inserted
      BY <1>1, <2>1 DEF Beat!TickAt
    <3> QED
      BY <1>2, <3>1 DEF TickInTime
  <2>2. CASE r # s
    <3>1. tick'[r] = tick[r] /\ TickInTime(r)
      BY <1>1, <2>2 DEF BeatInv
    <3> QED
      BY <1>2, <3>1 DEF TickInTime
  <2> QED
    BY <2>1, <2>2
<1> QED
  BY <1>1, <1>2, <1>3 DEF BeatInv, Beat!Pollable

\* What a query finds due is in time: what it serves is on, now.
LEMMA DueIsOn ==
    ASSUME BeatInv, NEW t \in Nat, t <= now
    PROVE  /\ \A key \in Beat!due_feeds(t) : IsKey(key)
           /\ \A key \in Beat!daily_report_targets(t) : IsKey(key)
           /\ \A key \in Beat!due_watches(t) : IsKey(key)
<1>1. /\ Beat!schedule_slot(t) \in Nat /\ Beat!schedule_slot(t) <= Beat!schedule_slot(now)
      /\ Beat!local_date(t) \in Nat /\ Beat!local_date(t) <= Beat!local_date(now)
  BY PeriodsMonotone DEF BeatInv
<1>2. ASSUME NEW key \in Beat!due_feeds(t) PROVE IsKey(key)
  <2>1. key = <<"discover", Beat!schedule_slot(t), feed.row_version>>
    BY <1>2 DEF Beat!due_feeds, Beat!If
  <2>2. lastOn.discover = now
    BY <1>2 DEF Beat!due_feeds, Beat!If, BeatInv
  <2> QED
    BY <1>1, <2>1, <2>2 DEF IsKey, InTime
<1>3. ASSUME NEW key \in Beat!daily_report_targets(t) PROVE IsKey(key)
  <2>1. key = <<"report_build", Beat!local_date(t)>>
    BY <1>3 DEF Beat!daily_report_targets, Beat!If
  <2>2. lastOn.industry = now
    BY <1>3 DEF Beat!daily_report_targets, Beat!If, BeatInv
  <2> QED
    BY <1>1, <2>1, <2>2 DEF IsKey, InTime
<1>4. ASSUME NEW key \in Beat!due_watches(t) PROVE IsKey(key)
  <2>1. key = <<"watch_check", Beat!schedule_slot(t)>>
    BY <1>4 DEF Beat!due_watches, Beat!If
  <2>2. lastOn.industry = now
    BY <1>4 DEF Beat!due_watches, Beat!If, BeatInv
  <2> QED
    BY <1>1, <2>1, <2>2 DEF IsKey, InTime
<1> QED
  BY <1>2, <1>3, <1>4

LEMMA BeatNext == BeatInv /\ [Beat!Next]_Beat!vars => BeatInv'
<1> SUFFICES ASSUME BeatInv, [Beat!Next]_Beat!vars PROVE BeatInv'
  OBVIOUS
<1>0. /\ now \in Nat /\ now <= now /\ 0 \in Nat /\ 0 <= now
      /\ \A key \in jobs : IsKey(key)
  BY DEF BeatInv
<1>1. CASE UNCHANGED Beat!vars
  <2>1. UNCHANGED <<now, feed, sub, industry, jobs, tick, lastOn>>
    BY <1>1 DEF Beat!vars
  <2>2. \A key : IsKey(key) => IsKey(key)'
    BY <2>1 DEF IsKey, InTime, Beat!schedule_slot, Beat!local_date
  <2>3. \A s \in Schedulers : TickInTime(s) => TickInTime(s)'
    BY <2>1, <2>2 DEF TickInTime
  <2> QED
    BY <2>1, <2>2, <2>3 DEF BeatInv, Beat!Pollable
<1>2. CASE Beat!Elapse
  <2>1. /\ now' = now + 1 /\ UNCHANGED <<feed, sub, industry, jobs, tick>>
        /\ Beat!NoteOn(now + 1, feed, sub, industry)
    BY <1>2 DEF Beat!Elapse
  <2>2. Beat!NoteOn(now + 1, feed', sub', industry')
    BY <2>1 DEF Beat!NoteOn
  <2> QED
    BY <2>1, <2>2, NotedOn
<1>3. CASE Beat!Switch
  <2>1. UNCHANGED <<now, jobs, tick>> /\ Beat!NoteOn(now, feed', sub', industry')
    BY <1>3 DEF Beat!Switch
  <2> QED
    BY <2>1, NotedOn
<1>4. ASSUME NEW s \in Schedulers, Beat!Begin(s) PROVE BeatInv'
  <2>1. /\ tick' = [tick EXCEPT ![s] = Beat!TickAt("feeds", now, {}, {})]
        /\ UNCHANGED <<now, feed, sub, industry, jobs, lastOn>>
    BY <1>4 DEF Beat!Begin
  <2> QED
    BY <1>0, <2>1, TickMoves
<1>5. ASSUME NEW s \in Schedulers, Beat!Query(s) PROVE BeatInv'
  <2> DEFINE t == tick[s].now
  <2>1. UNCHANGED <<now, feed, sub, industry, jobs, lastOn>>
    BY <1>5 DEF Beat!Query
  <2>2. t \in Nat /\ t <= now /\ \A key \in tick[s].inserted : IsKey(key)
    BY DEF BeatInv, TickInTime
  <2>3. PICK a \in {"reports", "watches", "commit"},
             due \in {Beat!due_feeds(t), Beat!daily_report_targets(t), Beat!due_watches(t)} :
           tick' = [tick EXCEPT ![s] = Beat!TickAt(a, t, due, tick[s].inserted)]
    BY <1>5 DEF Beat!Query
  <2> HIDE DEF t
  <2>4. \A key \in due : IsKey(key)
    BY <2>2, DueIsOn
  <2> QED
    BY <1>0, <2>1, <2>2, <2>3, <2>4, TickMoves
<1>6. ASSUME NEW s \in Schedulers, Beat!Enqueue(s) PROVE BeatInv'
  <2>1. PICK key \in tick[s].due :
           tick' = [tick EXCEPT ![s] = Beat!TickAt(tick[s].at, tick[s].now,
                      tick[s].due \ {key}, tick[s].inserted \cup Beat!If(key \notin jobs, key))]
    BY <1>6 DEF Beat!Enqueue
  <2>2. UNCHANGED <<now, feed, sub, industry, jobs, lastOn>>
    BY <1>6 DEF Beat!Enqueue
  <2>3. TickInTime(s)
    BY DEF BeatInv
  <2>4. Beat!If(key \notin jobs, key) \subseteq {key}
    BY DEF Beat!If
  <2>5. \A k \in (tick[s].due \ {key}) \cup (tick[s].inserted \cup Beat!If(key \notin jobs, key)) :
           IsKey(k)
    BY <2>3, <2>4 DEF TickInTime
  <2> QED
    BY <1>0, <2>1, <2>2, <2>3, <2>5, TickMoves DEF TickInTime
<1>7. ASSUME NEW s \in Schedulers, Beat!Commit(s) PROVE BeatInv'
  <2>1. /\ jobs' = jobs \cup tick[s].inserted
        /\ tick' = [tick EXCEPT ![s] = Beat!TickAt("idle", 0, {}, {})]
        /\ UNCHANGED <<now, feed, sub, industry, lastOn>>
    BY <1>7 DEF Beat!Commit, Beat!Idle
  <2>2. \A key \in jobs' : IsKey(key)
    BY <1>0, <2>1 DEF BeatInv, TickInTime
  <2>3. \A key \in {} \cup {} : IsKey(key)
    OBVIOUS
  <2>4. UNCHANGED <<now, feed, sub, industry, lastOn>>
    BY <2>1
  <2>5. tick' = [tick EXCEPT ![s] = Beat!TickAt("idle", 0, {}, {})]
    BY <2>1
  <2> QED
    BY <1>0, <2>2, <2>3, <2>4, <2>5, TickMoves
<1>8. ASSUME NEW s \in Schedulers, Beat!Die(s) PROVE BeatInv'
  <2>1. /\ tick' = [tick EXCEPT ![s] = Beat!TickAt("idle", 0, {}, {})]
        /\ UNCHANGED <<now, feed, sub, industry, jobs, lastOn>>
    BY <1>8 DEF Beat!Die, Beat!Idle
  <2> QED
    BY <1>0, <2>1, TickMoves
<1> QED
  BY <1>1, <1>2, <1>3, <1>4, <1>5, <1>6, <1>7, <1>8 DEF Beat!Next

\* THEOREM.  After a pause no job is created for a period that begins later,
\* although a tick commits late what it read before the pause.
THEOREM PauseStopsJobs == ServicesSpec => []PausedIsQuiet
<1> DEFINE Inv == part = "tick" => BeatInv
<1>1. ServicesInit => Inv
  BY BeatInit DEF ServicesInit
<1>2. Inv /\ [ServicesNext]_servicesVars => Inv'
  <2> SUFFICES ASSUME BeatInv, part = "tick", [ServicesNext]_servicesVars PROVE BeatInv'
    BY DEF ServicesNext, servicesVars
  <2>1. Beat!Next \/ UNCHANGED Beat!vars
    BY DEF ServicesNext, TickStep, servicesVars, ticking, Beat!vars
  <2> QED
    BY <2>1, BeatNext
<1>3. Inv => PausedIsQuiet
  BY DEF BeatInv, IsKey, InTime, PausedIsQuiet, Beat!PausedIsQuiet
<1> QED
  BY <1>1, <1>2, <1>3, PTL DEF ServicesSpec

-----------------------------------------------------------------------------
(* Fetching.  For every window of MinInterval: as long as nothing has been  *)
(* released in it, whoever sent in it, or will, still holds a slot; and     *)
(* what acquires a slot after a release sleeps until the window is over.    *)

Places == {"new", "waiting", "sleeping", "fetching", "cancelled", "transient",
           "access_blocked", "scope_violation", "permanent", "no_change",
           "browser_unavailable", "rendered", "captured"}

\* What a request may come to when it leaves its slot.
Results == {"blocked", "redirect_limit", "timeout", "network", "cancelled",
            "access_denied", "no_change", "http_429", "http_4xx", "http_5xx"} \cup Host!OfBody

\* Requests that have sent in the window from t, and those that may.
SentIn(t) == {r \in FetchRequests : started[r] # None
                 /\ t <= started[r] /\ started[r] < t + MinInterval}
Sleepers(t) == {r \in FetchRequests : at[r] = "sleeping" /\ wakes[r] < t + MinInterval}
Busy(t) == SentIn(t) \cup Sleepers(t)

WindowInv(t) ==
    \/ Busy(t) \subseteq Host!Holding
    \/ last_release # None /\ t <= last_release /\ Cardinality(Busy(t)) <= Concurrency

GateType ==
    /\ now \in Nat
    /\ at \in [FetchRequests -> Places]
    /\ wakes \in [FetchRequests -> Nat]
    /\ started \in [FetchRequests -> Nat \cup {None}]
    /\ last_release \in Nat \cup {None}
    /\ login_hop \in [FetchRequests -> BOOLEAN]
    /\ status \in [FetchRequests -> Nat]
    /\ path \in [FetchRequests -> SUBSET {"login", "page"}]

GateInv ==
    /\ GateType
    /\ Cardinality(Host!Holding) <= Concurrency
    /\ \A r \in FetchRequests : started[r] # None => started[r] <= now
    /\ last_release # None => last_release <= now
    /\ \A t \in Nat : WindowInv(t)
    /\ \A r \in FetchRequests : login_hop[r] <=> "login" \in path[r]

LEMMA HostCounts == \A S : Host!Cardinality(S) = Cardinality(S)
  BY Zenon DEF Host!Cardinality, Cardinality

\* A set of requests is finite, and a part of it is no larger.
LEMMA SomeRequests ==
    ASSUME NEW S \in SUBSET FetchRequests, NEW T \in SUBSET S
    PROVE  /\ IsFiniteSet(S) /\ Cardinality(S) \in Nat /\ Cardinality(T) \in Nat
           /\ Cardinality(T) <= Cardinality(S)
<1>1. IsFiniteSet(S)
  BY ServicesAssumption, FS_Subset
<1> QED
  BY <1>1, FS_Subset, FS_CardinalityType

LEMMA GateInit == Host!Init => GateInv
<1> SUFFICES ASSUME Host!Init PROVE GateInv
  OBVIOUS
<1>1. /\ now = 0 /\ at = [r \in FetchRequests |-> "new"]
      /\ last_release = None /\ wakes = [r \in FetchRequests |-> 0]
      /\ login_hop = [r \in FetchRequests |-> FALSE]
      /\ started = [r \in FetchRequests |-> None]
      /\ status = [r \in FetchRequests |-> 0]
      /\ path = [r \in FetchRequests |-> {}]
  BY DEF Host!Init
<1>2. GateType
  BY <1>1 DEF GateType, Places
<1>3. Host!Holding = {} /\ \A t \in Nat : Busy(t) = {}
  BY <1>1 DEF Host!Holding, Busy, SentIn, Sleepers
<1>4. Cardinality(Host!Holding) <= Concurrency
  BY <1>3, FS_EmptySet, ServicesAssumption
<1>5. \A t \in Nat : WindowInv(t)
  BY <1>3 DEF WindowInv
<1> QED
  BY <1>1, <1>2, <1>4, <1>5 DEF GateInv

\* Whatever a request comes to, it holds no slot then.
LEMMA EndsOutside ==
    ASSUME NEW result \in Results
    PROVE  Host!JobEnds(result) \in Places \ {"sleeping", "fetching", "waiting"}
  BY DEF Results, Places, Host!JobEnds, Host!OfBody

\* What is busy in a window after a step, when it was busy or is nobody new.
LEMMA WindowKept ==
    ASSUME GateInv, NEW t \in Nat, WindowInv(t), Busy(t)' \subseteq Busy(t),
           Host!Holding' = Host!Holding, UNCHANGED last_release
    PROVE  WindowInv(t)'
<1>1. Busy(t) \in SUBSET FetchRequests
  BY DEF Busy, SentIn, Sleepers
<1>2. /\ Cardinality(Busy(t)') <= Cardinality(Busy(t))
      /\ Cardinality(Busy(t)') \in Nat /\ Cardinality(Busy(t)) \in Nat
  BY <1>1, SomeRequests
<1> QED
  BY <1>2, ServicesAssumption DEF WindowInv

\* A step that neither takes, uses nor gives back a slot.
LEMMA GateQuiet ==
    ASSUME GateInv, GateType', now' \in {now, now + 1},
           UNCHANGED <<last_release, wakes, started>>,
           \A r \in FetchRequests : at'[r] # at[r] =>
              at[r] \notin {"sleeping", "fetching"} /\ at'[r] \notin {"sleeping", "fetching"},
           \A r \in FetchRequests : login_hop'[r] <=> "login" \in path'[r]
    PROVE  GateInv'
<1>1. Host!Holding' = Host!Holding
  BY DEF Host!Holding
<1>2. \A t \in Nat : Busy(t)' = Busy(t)
  BY DEF Busy, SentIn, Sleepers
<1>3. \A t \in Nat : WindowInv(t)'
  BY <1>1, <1>2, WindowKept DEF GateInv
<1>4. now' \in Nat /\ now <= now'
  BY DEF GateInv, GateType
<1>5. \A r \in FetchRequests : started'[r] # None => started'[r] <= now'
  BY <1>4 DEF GateInv, GateType
<1>6. last_release' # None => last_release' <= now'
  BY <1>4 DEF GateInv, GateType
<1> QED
  BY <1>1, <1>3, <1>5, <1>6 DEF GateInv

LEMMA GateAcquire ==
    ASSUME GateInv, NEW r \in FetchRequests, Host!Acquire(r)
    PROVE  GateInv'
<1>1. /\ at[r] = "waiting" /\ Cardinality(Host!Holding) < Concurrency
      /\ at' = [at EXCEPT ![r] = "sleeping"]
      /\ wakes' = [wakes EXCEPT ![r] = IF last_release = None THEN now
                                       ELSE IF last_release + MinInterval > now
                                            THEN last_release + MinInterval ELSE now]
      /\ UNCHANGED <<now, last_release, login_hop, path, status, started>>
  BY HostCounts DEF Host!Acquire, Host!exchange
<1>2. GateType'
  BY <1>1, ServicesAssumption DEF GateInv, GateType, Places
<1>3. Host!Holding' = Host!Holding \cup {r} /\ Host!Holding \in SUBSET FetchRequests
  BY <1>1 DEF Host!Holding, GateInv, GateType
<1>4. Cardinality(Host!Holding') <= Concurrency
  <2>1. IsFiniteSet(Host!Holding) /\ Cardinality(Host!Holding) \in Nat
    BY <1>3, SomeRequests
  <2>2. Cardinality(Host!Holding \cup {r}) <= Cardinality(Host!Holding) + 1
    BY <2>1, FS_AddElement
  <2>3. Cardinality(Host!Holding') \in Nat
    BY <1>3, SomeRequests
  <2> QED
    BY <1>1, <1>3, <2>1, <2>2, <2>3, ServicesAssumption
<1>5. ASSUME NEW t \in Nat PROVE WindowInv(t)'
  <2>1. SentIn(t)' = SentIn(t) /\ Sleepers(t)' \subseteq Sleepers(t) \cup {r}
    BY <1>1 DEF SentIn, Sleepers, GateInv, GateType
  <2>2. CASE Busy(t) \subseteq Host!Holding
    BY <1>3, <2>1, <2>2 DEF WindowInv, Busy
  <2>3. CASE last_release # None /\ t <= last_release /\ Cardinality(Busy(t)) <= Concurrency
    <3>1. last_release \in Nat
      BY <2>3 DEF GateInv, GateType
    <3>2. wakes'[r] >= last_release + MinInterval
      BY <1>1, <2>3, <3>1, ServicesAssumption DEF GateInv, GateType
    <3>3. wakes'[r] \in Nat /\ ~(wakes'[r] < t + MinInterval)
      BY <1>2, <2>3, <3>1, <3>2, ServicesAssumption DEF GateType
    <3>4. Sleepers(t)' \subseteq Sleepers(t)
      BY <2>1, <3>3 DEF Sleepers
    <3>5. Busy(t)' \in SUBSET Busy(t) /\ Busy(t) \in SUBSET FetchRequests
      BY <2>1, <3>4 DEF Busy, SentIn, Sleepers
    <3>6. /\ Cardinality(Busy(t)') <= Cardinality(Busy(t))
          /\ Cardinality(Busy(t)') \in Nat /\ Cardinality(Busy(t)) \in Nat
      BY <3>5, SomeRequests
    <3> QED
      BY <1>1, <2>3, <3>6, ServicesAssumption DEF WindowInv
  <2> QED
    BY <2>2, <2>3 DEF GateInv, WindowInv
<1> QED
  BY <1>1, <1>2, <1>4, <1>5 DEF GateInv

LEMMA GateSend ==
    ASSUME GateInv, NEW r \in FetchRequests, Host!Send(r)
    PROVE  GateInv'
<1>1. /\ at[r] = "sleeping" /\ now >= wakes[r]
      /\ at' = [at EXCEPT ![r] = "fetching"]
      /\ started' = [started EXCEPT ![r] = now]
      /\ UNCHANGED <<now, last_release, wakes, login_hop, path, status>>
  BY DEF Host!Send, Host!gate, Host!exchange
<1>2. GateType'
  BY <1>1 DEF GateInv, GateType, Places
<1>3. Host!Holding' = Host!Holding
  BY <1>1 DEF Host!Holding, GateInv, GateType
<1>4. ASSUME NEW t \in Nat PROVE Busy(t)' \subseteq Busy(t)
  <2>1. ASSUME NEW q \in Busy(t)' PROVE q \in Busy(t)
    <3>1. CASE q = r
      <4>1. started'[r] = now /\ at'[r] # "sleeping"
        BY <1>1 DEF GateInv, GateType
      <4>2. now < t + MinInterval
        BY <2>1, <3>1, <4>1 DEF Busy, SentIn, Sleepers
      <4>3. wakes[r] < t + MinInterval
        BY <1>1, <4>2, ServicesAssumption DEF GateInv, GateType
      <4> QED
        BY <1>1, <3>1, <4>3 DEF Busy, Sleepers
    <3>2. CASE q # r
      BY <1>1, <2>1, <3>2 DEF Busy, SentIn, Sleepers, GateInv, GateType
    <3> QED
      BY <3>1, <3>2
  <2> QED
    BY <2>1
<1>5. \A t \in Nat : WindowInv(t)'
  BY <1>1, <1>3, <1>4, WindowKept DEF GateInv
<1>6. \A q \in FetchRequests : started'[q] # None => started'[q] <= now'
  BY <1>1 DEF GateInv, GateType
<1> QED
  BY <1>1, <1>2, <1>3, <1>5, <1>6 DEF GateInv

LEMMA GateDone ==
    ASSUME GateInv, NEW r \in FetchRequests, NEW result \in Results,
           r \in Host!Holding, Host!Done(r, result), status' \in [FetchRequests -> Nat]
    PROVE  GateInv'
<1>1. /\ at' = [at EXCEPT ![r] = Host!JobEnds(result)] /\ last_release' = now
      /\ login_hop' = [login_hop EXCEPT ![r] = FALSE]
      /\ path' = [path EXCEPT ![r] = {}]
      /\ wakes' = [wakes EXCEPT ![r] = 0]
      /\ UNCHANGED <<now, started>>
  BY DEF Host!Done, Host!Leave
<1>2. Host!JobEnds(result) \in Places \ {"sleeping", "fetching", "waiting"}
  BY EndsOutside
<1>3. GateType'
  BY <1>1, <1>2 DEF GateInv, GateType
<1>4. Host!Holding' = Host!Holding \ {r} /\ Host!Holding \in SUBSET FetchRequests
  BY <1>1, <1>2 DEF Host!Holding, GateInv, GateType
<1>5. /\ Cardinality(Host!Holding') <= Cardinality(Host!Holding)
      /\ Cardinality(Host!Holding') \in Nat /\ Cardinality(Host!Holding) \in Nat
  BY <1>4, SomeRequests
<1>6. ASSUME NEW t \in Nat PROVE WindowInv(t)'
  <2>1. SentIn(t)' = SentIn(t) /\ Sleepers(t)' = Sleepers(t) \ {r}
    BY <1>1, <1>2 DEF SentIn, Sleepers, GateInv, GateType
  <2>2. Busy(t)' \in SUBSET Busy(t) /\ Busy(t) \in SUBSET FetchRequests
    BY <2>1 DEF Busy, SentIn, Sleepers
  <2>3. /\ Cardinality(Busy(t)') <= Cardinality(Busy(t))
        /\ Cardinality(Busy(t)') \in Nat /\ Cardinality(Busy(t)) \in Nat
    BY <2>2, SomeRequests
  <2>4. now \in Nat /\ now # None /\ last_release' = now
    BY <1>1, ServicesAssumption DEF GateInv, GateType
  <2>5. CASE t > now
    <3>1. SentIn(t) = {}
      BY <2>4, <2>5 DEF SentIn, GateInv, GateType
    <3>2. Sleepers(t)' \subseteq Host!Holding'
      BY <2>1, <1>4 DEF Sleepers, Host!Holding
    <3> QED
      BY <2>1, <3>1, <3>2 DEF WindowInv, Busy
  <2>6. CASE t <= now
    <3>1. Cardinality(Busy(t)) <= Concurrency
      <4>1. CASE Busy(t) \subseteq Host!Holding
        <5>1. Cardinality(Busy(t)) <= Cardinality(Host!Holding)
          BY <1>4, <4>1, SomeRequests
        <5> QED
          BY <1>5, <2>3, <5>1, ServicesAssumption DEF GateInv
      <4>2. CASE ~(Busy(t) \subseteq Host!Holding)
        BY <4>2 DEF GateInv, WindowInv
      <4> QED
        BY <4>1, <4>2
    <3> QED
      BY <2>3, <2>4, <2>6, <3>1, ServicesAssumption DEF WindowInv
  <2> QED
    BY <2>4, <2>5, <2>6
<1>7. \A q \in FetchRequests : login_hop'[q] <=> "login" \in path'[q]
  BY <1>1 DEF GateInv, GateType
<1>8. last_release' <= now' /\ \A q \in FetchRequests : started'[q] # None => started'[q] <= now'
  BY <1>1 DEF GateInv, GateType
<1>9. Cardinality(Host!Holding') <= Concurrency
  BY <1>5, ServicesAssumption DEF GateInv
<1> QED
  BY <1>3, <1>6, <1>7, <1>8, <1>9 DEF GateInv

\* The outcome of an answer: a 200 that followed a login is no body.
LEMMA Outcomes ==
    ASSUME GateInv, NEW r \in FetchRequests, NEW response \in Responses
    PROVE  /\ Host!Terminal(r, response) \in Results \cup {"body"}
           /\ Host!Terminal(r, response) # "captured"
           /\ Host!Terminal(r, response) = "body" /\ response = 200 => ~login_hop[r]
  BY DEF Host!Terminal, Results, Host!OfBody

\* The steps of a request that give back its slot, with what it came to.
LEMMA StepOfRequest ==
    ASSUME GateInv, NEW r \in FetchRequests,
           \/ Host!Redirect(r) \/ Host!Respond(r) \/ Host!Break(r) \/ Host!Cancel(r)
    PROVE  \/ \E result \in Results :
                 /\ r \in Host!Holding /\ Host!Done(r, result)
                 /\ status' \in [FetchRequests -> Nat]
                 /\ result = "captured" /\ status'[r] = 200 => ~login_hop[r]
           \/ /\ at[r] = "waiting" /\ at' = [at EXCEPT ![r] = "cancelled"]
              /\ UNCHANGED <<now, last_release, wakes, status, started, login_hop, path>>
           \/ /\ UNCHANGED <<now, at, last_release, wakes, status, started>>
              /\ \E target \in {"login", "page"} :
                    /\ path' = [path EXCEPT ![r] = path[r] \cup {target}]
                    /\ login_hop' = [login_hop EXCEPT ![r] = login_hop[r] \/ target = "login"]
<1>0. at[r] = "fetching" => r \in Host!Holding
  BY DEF Host!Holding
<1>s. status \in [FetchRequests -> Nat]
  BY DEF GateInv, GateType
<1>1. CASE Host!Redirect(r)
  <2>1. {"blocked", "redirect_limit"} \subseteq Results
    BY DEF Results
  <2> QED
    BY <1>0, <1>s, <1>1, <2>1 DEF Host!Redirect, Host!gate, Host!LooksLikeLogin
<1>2. CASE Host!Respond(r)
  <2>1. PICK response \in Responses :
           \E final \in IF Host!Terminal(r, response) = "body" THEN Host!OfBody
                        ELSE {Host!Terminal(r, response)} :
              /\ Host!Done(r, final)
              /\ status' = [status EXCEPT ![r] = IF final = "captured" THEN response ELSE 0]
    BY <1>2 DEF Host!Respond
  <2>2. PICK final \in IF Host!Terminal(r, response) = "body" THEN Host!OfBody
                       ELSE {Host!Terminal(r, response)} :
              /\ Host!Done(r, final)
              /\ status' = [status EXCEPT ![r] = IF final = "captured" THEN response ELSE 0]
    BY <2>1
  <2>3. at[r] = "fetching"
    BY <1>2 DEF Host!Respond
  <2>4. response \in Nat
    BY ServicesAssumption
  <2>5. final \in Results /\ (final = "captured" => Host!Terminal(r, response) = "body")
    BY Outcomes DEF Results, Host!OfBody
  <2>6. final = "captured" => status'[r] = response
    BY <1>s, <2>2
  <2>7. status' \in [FetchRequests -> Nat]
    BY <1>s, <2>2, <2>4
  <2>8. final = "captured" /\ status'[r] = 200 => ~login_hop[r]
    BY <2>5, <2>6, Outcomes
  <2> QED
    BY <1>0, <2>2, <2>3, <2>5, <2>7, <2>8
<1>3. CASE Host!Break(r)
  <2>1. {"timeout", "network"} \subseteq Results
    BY DEF Results
  <2> QED
    BY <1>0, <1>s, <1>3, <2>1 DEF Host!Break
<1>4. CASE Host!Cancel(r)
  <2>1. "cancelled" \in Results
    BY DEF Results
  <2> QED
    BY <1>s, <1>4, <2>1 DEF Host!Cancel, Host!exchange
<1> QED
  BY <1>1, <1>2, <1>3, <1>4

LEMMA GateNext == GateInv /\ [Host!Next]_Host!vars => GateInv'
<1> SUFFICES ASSUME GateInv, [Host!Next]_Host!vars PROVE GateInv'
  OBVIOUS
<1>1. CASE UNCHANGED Host!vars
  <2>1. UNCHANGED <<now, at, last_release, wakes, status, started, login_hop, path>>
    BY <1>1 DEF Host!vars
  <2>2. GateType'
    BY <2>1 DEF GateInv, GateType
  <2> QED
    BY <2>1, <2>2, GateQuiet DEF GateInv
<1>2. CASE Host!Elapse
  <2>1. UNCHANGED <<at, last_release, wakes, status, started, login_hop, path>> /\ now' = now + 1
    BY <1>2 DEF Host!Elapse, Host!gate, Host!exchange
  <2>2. GateType'
    BY <2>1 DEF GateInv, GateType
  <2> QED
    BY <2>1, <2>2, GateQuiet DEF GateInv
<1>3. ASSUME NEW r \in FetchRequests, Host!Ask(r) PROVE GateInv'
  <2>1. /\ at[r] = "new" /\ at' = [at EXCEPT ![r] = "waiting"]
        /\ UNCHANGED <<now, last_release, wakes, status, started, login_hop, path>>
    BY <1>3 DEF Host!Ask, Host!exchange
  <2>2. GateType'
    BY <2>1 DEF GateInv, GateType, Places
  <2>3. \A q \in FetchRequests : at'[q] # at[q] =>
           at[q] \notin {"sleeping", "fetching"} /\ at'[q] \notin {"sleeping", "fetching"}
    BY <2>1 DEF GateInv, GateType
  <2> QED
    BY <2>1, <2>2, <2>3, GateQuiet DEF GateInv
<1>4. ASSUME NEW r \in FetchRequests,
             Host!Redirect(r) \/ Host!Respond(r) \/ Host!Break(r) \/ Host!Cancel(r)
      PROVE  GateInv'
  <2>1. CASE \E result \in Results : /\ r \in Host!Holding /\ Host!Done(r, result)
                                     /\ status' \in [FetchRequests -> Nat]
    BY <2>1, GateDone
  <2>2. CASE /\ at[r] = "waiting" /\ at' = [at EXCEPT ![r] = "cancelled"]
             /\ UNCHANGED <<now, last_release, wakes, status, started, login_hop, path>>
    <3>1. GateType'
      BY <2>2 DEF GateInv, GateType, Places
    <3>2. \A q \in FetchRequests : at'[q] # at[q] =>
             at[q] \notin {"sleeping", "fetching"} /\ at'[q] \notin {"sleeping", "fetching"}
      BY <2>2 DEF GateInv, GateType
    <3> QED
      BY <2>2, <3>1, <3>2, GateQuiet DEF GateInv
  <2>3. ASSUME NEW target \in {"login", "page"},
               UNCHANGED <<now, at, last_release, wakes, status, started>>,
               path' = [path EXCEPT ![r] = path[r] \cup {target}],
               login_hop' = [login_hop EXCEPT ![r] = login_hop[r] \/ target = "login"]
        PROVE  GateInv'
    <3>1. GateType'
      BY <2>3 DEF GateInv, GateType
    <3>2. \A q \in FetchRequests : login_hop'[q] <=> "login" \in path'[q]
      BY <2>3 DEF GateInv, GateType
    <3> QED
      BY <2>3, <3>1, <3>2, GateQuiet
  <2> QED
    BY <1>4, <2>1, <2>2, <2>3, StepOfRequest
<1> QED
  BY <1>1, <1>2, <1>3, <1>4, GateAcquire, GateSend DEF Host!Next

\* THEOREM.  In less than MinInterval a host is not sent more requests than it
\* has slots, however many ask, wait, fail or are cancelled in whatever order.
THEOREM BurstsAreBounded == ServicesSpec => []BurstBounded
<1> DEFINE Inv == part = "fetch" => GateInv
<1>1. ServicesInit => Inv
  BY GateInit DEF ServicesInit
<1>2. Inv /\ [ServicesNext]_servicesVars => Inv'
  <2> SUFFICES ASSUME GateInv, part = "fetch", [ServicesNext]_servicesVars PROVE GateInv'
    BY DEF ServicesNext, servicesVars
  <2>1. Host!Next \/ UNCHANGED Host!vars
    BY DEF ServicesNext, FetchStep, servicesVars, fetching, Host!vars
  <2> QED
    BY <2>1, GateNext
<1>3. Inv => BurstBounded
  <2> SUFFICES ASSUME GateInv, NEW t \in 0 .. now PROVE Cardinality(SentIn(t)) <= Concurrency
    BY HostCounts DEF BurstBounded, Host!BurstBounded, SentIn
  <2>1. t \in Nat
    BY DEF GateInv, GateType
  <2>2. Busy(t) \in SUBSET FetchRequests /\ Host!Holding \in SUBSET FetchRequests
        /\ SentIn(t) \in SUBSET Busy(t)
    BY DEF Busy, SentIn, Sleepers, Host!Holding
  <2>3. /\ Cardinality(SentIn(t)) <= Cardinality(Busy(t))
        /\ Cardinality(SentIn(t)) \in Nat /\ Cardinality(Busy(t)) \in Nat
    BY <2>2, SomeRequests
  <2>4. CASE Busy(t) \subseteq Host!Holding
    <3>1. /\ Cardinality(Busy(t)) <= Cardinality(Host!Holding)
          /\ Cardinality(Host!Holding) \in Nat
      BY <2>2, <2>4, SomeRequests
    <3> QED
      BY <2>3, <3>1, ServicesAssumption DEF GateInv
  <2>5. CASE ~(Busy(t) \subseteq Host!Holding)
    BY <2>1, <2>3, <2>5, ServicesAssumption DEF GateInv, WindowInv
  <2> QED
    BY <2>4, <2>5
<1> QED
  BY <1>1, <1>2, <1>3, PTL DEF ServicesSpec

\* THEOREM.  Whatever the host answers, a page of status 200 that a login stood
\* before is no capture.
THEOREM NoLoginIsCaptured == ServicesSpec => LoginIsNoCapture
<1> DEFINE Inv == part = "fetch" => GateInv
           Kept == \A r \in FetchRequests :
                      Host!Captures(r) /\ status'[r] = 200 => "login" \notin path[r]
<1>1. ServicesInit => Inv
  BY GateInit DEF ServicesInit
<1>2. Inv /\ [ServicesNext]_servicesVars => Inv'
  <2> SUFFICES ASSUME GateInv, part = "fetch", [ServicesNext]_servicesVars PROVE GateInv'
    BY DEF ServicesNext, servicesVars
  <2>1. Host!Next \/ UNCHANGED Host!vars
    BY DEF ServicesNext, FetchStep, servicesVars, fetching, Host!vars
  <2> QED
    BY <2>1, GateNext
<1>3. Inv /\ [ServicesNext]_servicesVars => [Kept]_Host!vars
  <2> SUFFICES ASSUME Inv, [ServicesNext]_servicesVars, at' # at,
                      NEW r \in FetchRequests, at[r] # "captured", at'[r] = "captured",
                      status'[r] = 200
               PROVE  "login" \notin path[r]
    BY DEF Host!Captures, Host!vars
  <2>1. GateInv /\ Host!Next
    BY DEF ServicesNext, WorkspaceStep, TickStep, ReportStep, AccountStep, FetchStep,
           servicesVars, fetching
  <2>2. PICK q \in FetchRequests :
           \/ Host!Ask(q) \/ Host!Acquire(q) \/ Host!Send(q) \/ Host!Redirect(q)
           \/ Host!Respond(q) \/ Host!Break(q) \/ Host!Cancel(q)
    BY <2>1 DEF Host!Next, Host!Elapse
  <2>3. ~(Host!Ask(q) \/ Host!Acquire(q) \/ Host!Send(q))
    BY <2>1 DEF Host!Ask, Host!Acquire, Host!Send, GateInv, GateType
  <2>4. PICK result \in Results :
           Host!Done(q, result) /\ (result = "captured" /\ status'[q] = 200 => ~login_hop[q])
    BY <2>1, <2>2, <2>3, StepOfRequest DEF GateInv, GateType
  <2>5. q = r /\ Host!JobEnds(result) = "captured"
    BY <2>1, <2>4 DEF Host!Done, Host!Leave, GateInv, GateType
  <2>6. result = "captured"
    BY <2>5 DEF Host!JobEnds
  <2> QED
    BY <2>1, <2>4, <2>5, <2>6 DEF GateInv
<1> QED
  BY <1>1, <1>2, <1>3, PTL DEF ServicesSpec, LoginIsNoCapture, Host!LoginIsNoCapture

-----------------------------------------------------------------------------
(* Reports.  What a run holds of evidence is committed, what is stored says *)
(* what its packet supports, and a run that has stored a report still knows *)
(* it when it ends the job.                                                 *)

ReportRow == [sections : SUBSET SUBSET Nat, unsupported : SUBSET SUBSET Nat,
              status : {"ready", "partial"}, job : Jobs, packet : SUBSET Nat,
              draft : SUBSET SUBSET Nat]

Snapshot(r) ==
    /\ \A s \in r.sections : s # {} /\ s \subseteq r.packet
    /\ r.packet \subseteq 1 .. evidence
    /\ r.sections \cup r.unsupported = r.draft
    /\ r.status = "ready" <=> r.unsupported = {}

\* The run of the job j, and the job when it has succeeded.
RunOf(j) ==
    /\ run[j].packet \subseteq 1 .. evidence
    /\ run[j].draft \in SUBSET SUBSET Nat
    /\ run[j].at \in {"finish", "done"} =>
          run[j].report \in 1 .. Len(reports) /\ reports[run[j].report].job = j
    /\ job[j].state = "succeeded" => run[j].at = "done"

ReportInv ==
    /\ evidence \in Nat
    /\ DOMAIN run = Jobs /\ DOMAIN job = Jobs
    /\ reports \in Seq(ReportRow)
    /\ \A i \in 1 .. Len(reports) : Snapshot(reports[i])
    /\ \A j \in Jobs : RunOf(j)

LEMMA ReportInit == Report!Init => ReportInv
<1> SUFFICES ASSUME Report!Init PROVE ReportInv
  OBVIOUS
<1>1. /\ evidence = 0 /\ reports = << >>
      /\ run = [j \in Jobs |-> Report!NoRun]
      /\ job = [j \in Jobs |-> [origin |-> "none", state |-> "none", attempt |-> 0]]
  BY DEF Report!Init
<1>2. /\ Report!NoRun.packet = {} /\ Report!NoRun.at = "none"
      /\ Report!NoRun.draft = {}
  BY DEF Report!NoRun, Report!RunAt
<1>3. \A j \in Jobs : RunOf(j)
  BY <1>1, <1>2 DEF RunOf
<1>4. reports \in Seq(ReportRow) /\ 1 .. Len(reports) = {}
  BY <1>1
<1> QED
  BY <1>1, <1>3, <1>4 DEF ReportInv

\* What was stored stays, and evidence is only added.
LEMMA SnapshotsKept ==
    ASSUME ReportInv, evidence' \in Nat, evidence <= evidence', UNCHANGED reports
    PROVE  /\ \A i \in 1 .. Len(reports') : Snapshot(reports[i])'
           /\ reports' \in Seq(ReportRow)
<1>1. 1 .. evidence \subseteq 1 .. evidence'
  BY DEF ReportInv
<1> QED
  BY <1>1 DEF ReportInv, Snapshot

\* One run, or its job, moves on.
LEMMA OneMoves ==
    ASSUME ReportInv, UNCHANGED <<evidence, reports>>, NEW j \in Jobs,
           DOMAIN run' = Jobs, DOMAIN job' = Jobs,
           \A i \in Jobs : i # j => run'[i] = run[i] /\ job'[i] = job[i],
           RunOf(j)'
    PROVE  ReportInv'
<1>1. \A i \in Jobs : RunOf(i)'
  BY DEF ReportInv, RunOf
<1>2. evidence \in Nat /\ evidence <= evidence
  BY DEF ReportInv
<1> QED
  BY <1>1, <1>2, SnapshotsKept DEF ReportInv

LEMMA ReportNext == ReportInv /\ [Report!Next]_Report!vars => ReportInv'
<1> SUFFICES ASSUME ReportInv, [Report!Next]_Report!vars PROVE ReportInv'
  OBVIOUS
<1>0. /\ DOMAIN run = Jobs /\ DOMAIN job = Jobs /\ evidence \in Nat
      /\ reports \in Seq(ReportRow) /\ Len(reports) \in Nat
  BY DEF ReportInv
<1>1. CASE UNCHANGED <<job, run, reports>> /\ evidence' \in {evidence, evidence + 1}
  <2>1. evidence' \in Nat /\ evidence <= evidence'
    BY <1>0, <1>1
  <2>2. 1 .. evidence \subseteq 1 .. evidence'
    BY <1>0, <2>1
  <2>3. \A j \in Jobs : RunOf(j)'
    BY <1>1, <2>2 DEF ReportInv, RunOf
  <2> QED
    BY <1>0, <1>1, <2>1, <2>3, SnapshotsKept DEF ReportInv
<1>2. CASE UNCHANGED Report!vars
  BY <1>1, <1>2 DEF Report!vars
<1>3. CASE Report!Extract
  BY <1>1, <1>3 DEF Report!Extract
<1>4. CASE Report!MarkStale
  BY <1>1, <1>4 DEF Report!MarkStale
<1>5. ASSUME NEW j \in Jobs, Report!Enqueue(j) PROVE ReportInv'
  <2>1. PICK origin \in {"tick", "api"} :
           job' = [job EXCEPT ![j] = [origin |-> origin, state |-> "queued", attempt |-> 0]]
    BY <1>5 DEF Report!Enqueue
  <2>2. UNCHANGED <<evidence, run, reports>>
    BY <1>5 DEF Report!Enqueue
  <2>3. job'[j].state = "queued"
    BY <1>0, <2>1
  <2>4. RunOf(j)'
    BY <2>2, <2>3 DEF RunOf, ReportInv
  <2> QED
    BY <1>0, <2>1, <2>2, <2>4, OneMoves
<1>6. ASSUME NEW j \in Jobs, Report!Claim(j) PROVE ReportInv'
  <2>1. /\ job' = [job EXCEPT ![j] = [origin |-> job[j].origin, state |-> "running",
                                      attempt |-> job[j].attempt + 1]]
        /\ run' = [run EXCEPT ![j] = Report!RunAt("read", {}, {}, 0)]
        /\ UNCHANGED <<evidence, reports>>
    BY <1>6 DEF Report!Claim
  <2>2. job'[j].state = "running" /\ run'[j] = Report!RunAt("read", {}, {}, 0)
    BY <1>0, <2>1
  <2>3. RunOf(j)'
    BY <2>2 DEF RunOf, Report!RunAt
  <2> QED
    BY <1>0, <2>1, <2>3, OneMoves
<1>7. ASSUME NEW j \in Jobs, Report!ReadPacket(j) PROVE ReportInv'
  <2> DEFINE packet == {e \in 1 .. evidence : e + PacketLimit > evidence}
  <2>1. /\ run[j].at = "read" /\ run' = [run EXCEPT ![j] = Report!RunAt("compose", packet, {}, 0)]
        /\ UNCHANGED <<evidence, job, reports>>
    BY <1>7 DEF Report!ReadPacket
  <2>2. packet \subseteq 1 .. evidence
    OBVIOUS
  <2> HIDE DEF packet
  <2>3. run'[j] = Report!RunAt("compose", packet, {}, 0)
    BY <1>0, <2>1
  <2>4. RunOf(j)'
    BY <2>1, <2>2, <2>3 DEF RunOf, Report!RunAt, ReportInv
  <2> QED
    BY <1>0, <2>1, <2>4, OneMoves
<1>8. ASSUME NEW j \in Jobs, Report!Compose(j) PROVE ReportInv'
  <2>1. PICK draft \in Drafts :
           run' = [run EXCEPT ![j] = Report!RunAt("persist", run[j].packet, draft, 0)]
    BY <1>8 DEF Report!Compose
  <2>2. run[j].at = "compose" /\ UNCHANGED <<evidence, job, reports>>
    BY <1>8 DEF Report!Compose
  <2>3. run'[j] = Report!RunAt("persist", run[j].packet, draft, 0)
    BY <1>0, <2>1
  <2>4. draft \in SUBSET SUBSET Nat
    BY ServicesAssumption
  <2>5. RunOf(j)'
    BY <2>2, <2>3, <2>4 DEF RunOf, Report!RunAt, ReportInv
  <2> QED
    BY <1>0, <2>1, <2>2, <2>5, OneMoves
<1>9. ASSUME NEW j \in Jobs, Report!Persist(j) PROVE ReportInv'
  <2> DEFINE c == Report!Composition(j)
             n == Len(reports) + 1
  <2>1. /\ run[j].at = "persist" /\ reports' = Append(reports, c)
        /\ run' = [run EXCEPT ![j] = Report!RunAt("finish", {}, {}, n)]
        /\ UNCHANGED <<evidence, job>>
    BY <1>9 DEF Report!Persist
  <2>2. RunOf(j)
    BY DEF ReportInv
  <2>3. c \in ReportRow /\ c.job = j
    BY <1>0, <2>2 DEF Report!Composition, ReportRow, RunOf
  <2>4. Snapshot(c)
    BY <2>2 DEF Report!Composition, Report!Supported, Snapshot, RunOf
  <2> HIDE DEF c
  <2>5. /\ reports' \in Seq(ReportRow) /\ Len(reports') = n /\ reports'[n] = c
        /\ \A i \in 1 .. Len(reports) : reports'[i] = reports[i]
    BY <1>0, <2>1, <2>3
  <2>6. \A i \in 1 .. Len(reports') : Snapshot(reports[i])'
    BY <1>0, <2>1, <2>4, <2>5 DEF ReportInv, Snapshot
  <2>7. run'[j] = Report!RunAt("finish", {}, {}, n)
    BY <1>0, <2>1
  <2>8. run'[j].packet = {} /\ run'[j].draft = {} /\ run'[j].at = "finish" /\ run'[j].report = n
    BY <2>7 DEF Report!RunAt
  <2>9. job[j].state # "succeeded"
    BY <2>1, <2>2 DEF RunOf
  <2>10. RunOf(j)'
    BY <1>0, <2>1, <2>3, <2>5, <2>8, <2>9 DEF RunOf
  <2>11. ASSUME NEW i \in Jobs, i # j PROVE RunOf(i)'
    <3>1. run'[i] = run[i] /\ RunOf(i)
      BY <1>0, <2>1, <2>11 DEF ReportInv
    <3> QED
      BY <1>0, <2>1, <2>5, <3>1 DEF RunOf
  <2> QED
    BY <1>0, <2>1, <2>5, <2>6, <2>10, <2>11 DEF ReportInv
<1>10. ASSUME NEW j \in Jobs, Report!NoManifestHash(j) PROVE ReportInv'
  <2>1. /\ job' = [job EXCEPT ![j].state = "failed"]
        /\ run' = [run EXCEPT ![j] = Report!NoRun]
        /\ UNCHANGED <<evidence, reports>>
    BY <1>10 DEF Report!NoManifestHash
  <2>2. run'[j] = Report!NoRun
    BY <1>0, <2>1
  <2>3. job'[j].state # "succeeded"
    BY <1>0, <2>1, <1>10 DEF Report!NoManifestHash, ReportInv, RunOf
  <2>4. RunOf(j)'
    BY <2>2, <2>3 DEF RunOf, Report!NoRun, Report!RunAt
  <2> QED
    BY <1>0, <2>1, <2>4, OneMoves
<1>11. ASSUME NEW j \in Jobs, Report!Finish(j) PROVE ReportInv'
  <2>1. /\ run[j].at = "finish" /\ job' = [job EXCEPT ![j].state = "succeeded"]
        /\ run' = [run EXCEPT ![j].at = "done"]
        /\ UNCHANGED <<evidence, reports>>
    BY <1>11 DEF Report!Finish
  <2>2. RunOf(j)
    BY DEF ReportInv
  <2>3. /\ run'[j].at = "done" /\ run'[j].packet = run[j].packet
        /\ run'[j].draft = run[j].draft /\ run'[j].report = run[j].report
    BY <1>0, <2>1
  <2>4. RunOf(j)'
    BY <2>1, <2>2, <2>3 DEF RunOf
  <2> QED
    BY <1>0, <2>1, <2>4, OneMoves
<1>12. ASSUME NEW j \in Jobs, Report!Stop(j) PROVE ReportInv'
  <2>1. /\ job' = [job EXCEPT ![j].state = IF job[j].attempt < MaxAttempts THEN "queued"
                                                                           ELSE "failed"]
        /\ run' = [run EXCEPT ![j] = Report!NoRun]
        /\ UNCHANGED <<evidence, reports>>
    BY <1>12 DEF Report!Stop
  <2>2. run'[j] = Report!NoRun
    BY <1>0, <2>1
  <2>3. job'[j].state # "succeeded"
    BY <1>0, <2>1
  <2>4. RunOf(j)'
    BY <2>2, <2>3 DEF RunOf, Report!NoRun, Report!RunAt
  <2> QED
    BY <1>0, <2>1, <2>4, OneMoves
<1> QED
  BY <1>2, <1>3, <1>4, <1>5, <1>6, <1>7, <1>8, <1>9, <1>10, <1>11, <1>12 DEF Report!Next

\* THEOREM.  A stored report shows only what its own packet supports and lists
\* the rest, and a job that succeeded has stored its report.
THEOREM ReportsAreSupported == ServicesSpec => []SnapshotsAreSupported
<1> DEFINE Inv == part = "report" => ReportInv
<1>1. ServicesInit => Inv
  BY ReportInit DEF ServicesInit
<1>2. Inv /\ [ServicesNext]_servicesVars => Inv'
  <2> SUFFICES ASSUME ReportInv, part = "report", [ServicesNext]_servicesVars PROVE ReportInv'
    BY DEF ServicesNext, servicesVars
  <2>1. Report!Next \/ UNCHANGED Report!vars
    BY DEF ServicesNext, ReportStep, servicesVars, reporting, Report!vars
  <2> QED
    BY <2>1, ReportNext
<1>3. Inv => SnapshotsAreSupported
  BY DEF ReportInv, RunOf, Snapshot, SnapshotsAreSupported, Report!SnapshotsAreSupported
<1> QED
  BY <1>1, <1>2, <1>3, PTL DEF ServicesSpec

-----------------------------------------------------------------------------
(* Sessions.  A row carries the version of the resets that were done when   *)
(* it was issued, so a session from before a reset never has the version of *)
(* the user row again, whatever the reset that revoked the others had seen. *)

SessionRow == [version : Nat, expires : Nat, revoked : BOOLEAN, under : Nat]

\* The session was issued after the resets it carries.
Issued(r) == r \in SessionRow /\ r.version = r.under + 1 /\ r.under <= resets

Slot == [at : {"idle", "issue", "commit", "user", "accepted"},
         id : (1 .. MaxSessions) \cup {None}, row : SessionRow \cup {None},
         ended : BOOLEAN]

\* What a request found ended when it read the session was issued before a reset.
Checked(q) ==
    /\ request[q].at \in {"user", "accepted"} =>
          /\ request[q].id \in 1 .. MaxSessions /\ Issued(sessions[request[q].id])
          /\ Issued(request[q].row)
          /\ request[q].ended => request[q].row.under < resets
    /\ request[q].at = "accepted" => ~request[q].ended

AccountInv ==
    /\ now \in Nat /\ resets \in Nat
    /\ password_version = resets + 1
    /\ sessions \in [1 .. MaxSessions -> SessionRow \cup {None}]
    /\ \A i \in 1 .. MaxSessions : sessions[i] # None => Issued(sessions[i])
    /\ login \in [Logins -> Slot]
    /\ \A l \in Logins :
          login[l].at = "commit" => login[l].id \in 1 .. MaxSessions /\ Issued(login[l].row)
    /\ reset \in [at : {"idle", "revoke", "commit"}, read : Nat,
                  revoked : SUBSET (1 .. MaxSessions)]
    /\ reset.at # "idle" => reset.read = password_version
    /\ \A i \in reset.revoked : Issued(sessions[i])
    /\ request \in [CookieRequests -> Slot]
    /\ \A q \in CookieRequests : Checked(q)

LEMMA AccountInit == Account!Init => AccountInv
<1> SUFFICES ASSUME Account!Init PROVE AccountInv
  OBVIOUS
<1>1. Account!Idle \in Slot /\ Account!Idle.at = "idle"
  BY DEF Account!Idle, Slot
<1>2. /\ now = 0 /\ resets = 0 /\ password_version = 1
      /\ sessions = [i \in 1 .. MaxSessions |-> None]
      /\ login = [l \in Logins |-> Account!Idle]
      /\ request = [q \in CookieRequests |-> Account!Idle]
      /\ reset = [at |-> "idle", read |-> 0, revoked |-> {}]
  BY DEF Account!Init, Account!Ids
<1> HIDE DEF Slot
<1>3. \A q \in CookieRequests : Checked(q)
  BY <1>1, <1>2 DEF Checked
<1>4. sessions \in [1 .. MaxSessions -> SessionRow \cup {None}]
  BY <1>2
<1>5. login \in [Logins -> Slot] /\ request \in [CookieRequests -> Slot]
  BY <1>1, <1>2
<1>6. \A l \in Logins : login[l].at = "idle"
  BY <1>1, <1>2
<1>7. \A i \in 1 .. MaxSessions : sessions[i] = None
  BY <1>2
<1>8. /\ reset \in [at : {"idle", "revoke", "commit"}, read : Nat,
                     revoked : SUBSET (1 .. MaxSessions)]
      /\ reset.at = "idle" /\ reset.revoked = {}
  BY <1>2
<1>9. now \in Nat /\ resets \in Nat /\ password_version = resets + 1
  BY <1>2
<1> QED
  BY <1>3, <1>4, <1>5, <1>6, <1>7, <1>8, <1>9 DEF AccountInv

\* A row of a session that is revoked is still the row of that session.
LEMMA RevokedRow ==
    ASSUME NEW i, Issued(sessions[i])
    PROVE  Issued(Account!Revoked(i))
  BY DEF Account!Revoked, Issued, SessionRow

LEMMA AccountNext == AccountInv /\ [Account!Next]_Account!vars => AccountInv'
<1> SUFFICES ASSUME AccountInv, [Account!Next]_Account!vars PROVE AccountInv'
  OBVIOUS
<1>0. /\ Account!Idle \in Slot /\ Account!Idle.at = "idle"
      /\ Account!Ids = 1 .. MaxSessions
  BY DEF Account!Idle, Slot, Account!Ids
\* A step of one login or one request, that resets nothing.
<1>1. ASSUME UNCHANGED <<password_version, resets, sessions, reset, login>>, now' \in Nat,
             NEW q \in CookieRequests, NEW s \in Slot,
             request' = [request EXCEPT ![q] = s], Checked(q)'
      PROVE  AccountInv'
  <2>1. \A p \in CookieRequests : Checked(p)'
    BY <1>1 DEF AccountInv, Checked, Issued
  <2>2. request' \in [CookieRequests -> Slot]
    BY <1>1 DEF AccountInv
  <2> QED
    BY <1>1, <2>1, <2>2 DEF AccountInv, Issued
<1>2. ASSUME UNCHANGED <<now, password_version, resets, sessions, reset, request>>,
             NEW l \in Logins, NEW s \in Slot,
             login' = [login EXCEPT ![l] = s],
             s.at = "commit" => s.id \in 1 .. MaxSessions /\ Issued(s.row)
      PROVE  AccountInv'
  <2>1. login' \in [Logins -> Slot] /\ \A k \in Logins : k # l => login'[k] = login[k]
    BY <1>2 DEF AccountInv
  <2>2. login'[l] = s
    BY <1>2 DEF AccountInv
  <2> HIDE DEF Slot
  <2> QED
    BY <1>2, <2>1, <2>2 DEF AccountInv, Issued, Checked
<1>3. CASE UNCHANGED Account!vars
  <2>1. UNCHANGED <<now, password_version, sessions, login, reset, request, resets>>
    BY <1>3 DEF Account!vars
  <2> QED
    BY <2>1 DEF AccountInv, Issued, Checked
<1>4. CASE Account!Elapse
  <2>1. UNCHANGED <<password_version, sessions, login, reset, request, resets>> /\ now' = now + 1
    BY <1>4 DEF Account!Elapse
  <2> QED
    BY <2>1 DEF AccountInv, Issued, Checked
<1>5. ASSUME NEW l \in Logins, Account!Authenticate(l) PROVE AccountInv'
  <2> DEFINE s == [login[l] EXCEPT !.at = "issue"]
  <2>1. s \in Slot /\ s.at = "issue"
    BY DEF AccountInv, Slot
  <2>2. login' = [login EXCEPT ![l] = s]
    BY <1>5 DEF Account!Authenticate, AccountInv
  <2>3. UNCHANGED <<now, password_version, sessions, reset, request, resets>>
    BY <1>5 DEF Account!Authenticate
  <2> HIDE DEF s
  <2> QED
    BY <1>2, <2>1, <2>2, <2>3
<1>6. ASSUME NEW l \in Logins, Account!Issue(l) PROVE AccountInv'
  <2>1. PICK id \in Account!Ids \ Account!Used :
           login' = [login EXCEPT ![l] = [at |-> "commit", id |-> id, row |-> Account!NewRow,
                                          ended |-> FALSE]]
    BY <1>6 DEF Account!Issue
  <2>2. UNCHANGED <<now, password_version, sessions, reset, request, resets>>
    BY <1>6 DEF Account!Issue
  <2>3. Issued(Account!NewRow)
    BY ServicesAssumption DEF Account!NewRow, Issued, SessionRow, AccountInv
  <2> DEFINE s == [at |-> "commit", id |-> id, row |-> Account!NewRow, ended |-> FALSE]
  <2>4. s \in Slot /\ s.id \in 1 .. MaxSessions /\ s.row = Account!NewRow
    BY <1>0, <2>3 DEF Slot, Issued
  <2>5. login' = [login EXCEPT ![l] = s]
    BY <2>1
  <2> HIDE DEF s
  <2> QED
    BY <1>2, <2>2, <2>3, <2>4, <2>5
<1>7. ASSUME NEW l \in Logins, Account!CommitLogin(l) PROVE AccountInv'
  <2>1. /\ login[l].at = "commit"
        /\ sessions' = [sessions EXCEPT ![login[l].id] = login[l].row]
        /\ login' = [login EXCEPT ![l] = Account!Idle]
        /\ UNCHANGED <<now, password_version, reset, request, resets>>
    BY <1>7 DEF Account!CommitLogin
  <2>2. login[l].id \in 1 .. MaxSessions /\ Issued(login[l].row)
    BY <2>1 DEF AccountInv, Issued
  <2>3. /\ sessions' \in [1 .. MaxSessions -> SessionRow \cup {None}]
        /\ \A i \in 1 .. MaxSessions :
              sessions'[i] = IF i = login[l].id THEN login[l].row ELSE sessions[i]
    BY <2>1, <2>2 DEF AccountInv, Issued
  <2>4. /\ login' \in [Logins -> Slot]
        /\ \A k \in Logins : login'[k] = IF k = l THEN Account!Idle ELSE login[k]
    BY <1>0, <2>1 DEF AccountInv
  <2> HIDE DEF Slot
  <2>5. \A i \in 1 .. MaxSessions : sessions'[i] # None => Issued(sessions[i])'
    BY <2>1, <2>2, <2>3 DEF AccountInv, Issued
  <2>6. \A q \in CookieRequests : Checked(q)'
    BY <2>1, <2>2, <2>3 DEF AccountInv, Issued, Checked
  <2>7. \A k \in Logins :
           login'[k].at = "commit" => login'[k].id \in 1 .. MaxSessions /\ Issued(login[k].row)'
    BY <1>0, <2>1, <2>4 DEF AccountInv, Issued
  <2>8. \A i \in reset'.revoked : Issued(sessions[i])'
    BY <2>1, <2>2, <2>3 DEF AccountInv, Issued
  <2> QED
    BY <2>1, <2>3, <2>4, <2>5, <2>6, <2>7, <2>8 DEF AccountInv, Issued
<1>8. ASSUME NEW l \in Logins, Account!AbortLogin(l) PROVE AccountInv'
  BY <1>0, <1>2, <1>8 DEF Account!AbortLogin
<1>9. ASSUME UNCHANGED <<now, password_version, resets, sessions, login, request>>,
             reset' \in [at : {"idle", "revoke", "commit"}, read : Nat,
                         revoked : SUBSET (1 .. MaxSessions)],
             reset'.at # "idle" => reset'.read = password_version,
             \A i \in reset'.revoked : Issued(sessions[i])
      PROVE  AccountInv'
  BY <1>9 DEF AccountInv, Issued, Checked
<1>10. CASE Account!ReadUser
  <2>1. /\ reset' = [at |-> "revoke", read |-> password_version, revoked |-> {}]
        /\ UNCHANGED <<now, password_version, sessions, login, request, resets>>
    BY <1>10 DEF Account!ReadUser
  <2> QED
    BY <1>9, <2>1 DEF AccountInv
<1>11. CASE Account!RevokeAll
  <2>1. /\ reset.at = "revoke"
        /\ reset' = [at |-> "commit", read |-> reset.read,
                     revoked |-> {i \in Account!Ids : Account!Live(i)}]
        /\ UNCHANGED <<now, password_version, sessions, login, request, resets>>
    BY <1>11 DEF Account!RevokeAll
  <2>2. \A i \in {i \in Account!Ids : Account!Live(i)} : Issued(sessions[i])
    BY <1>0 DEF Account!Live, AccountInv
  <2> QED
    BY <1>0, <1>9, <2>1, <2>2 DEF AccountInv
<1>12. CASE Account!AbortReset
  BY <1>9, <1>12 DEF Account!AbortReset
<1>13. CASE Account!CommitReset
  <2>1. /\ reset.at = "commit" /\ password_version' = reset.read + 1
        /\ sessions' = [i \in 1 .. MaxSessions |->
                           IF i \in reset.revoked THEN Account!Revoked(i) ELSE sessions[i]]
        /\ resets' = resets + 1
        /\ reset' = [at |-> "idle", read |-> 0, revoked |-> {}]
        /\ UNCHANGED <<now, login, request>>
    BY <1>0, <1>13 DEF Account!CommitReset
  <2>2. ASSUME NEW i \in 1 .. MaxSessions
        PROVE  /\ sessions'[i] \in SessionRow \cup {None}
               /\ Issued(sessions[i]) => Issued(sessions'[i])
               /\ sessions'[i] # None => Issued(sessions'[i])
    <3>1. CASE i \in reset.revoked
      <4>1. Issued(sessions[i])
        BY <3>1 DEF AccountInv
      <4> QED
        BY <2>1, <3>1, <4>1, RevokedRow DEF Issued
    <3>2. CASE i \notin reset.revoked
      BY <2>1, <3>2 DEF AccountInv
    <3> QED
      BY <3>1, <3>2
  <2>3. /\ resets' \in Nat /\ password_version' = resets' + 1
        /\ \A r : Issued(r) => Issued(r)'
    BY <2>1 DEF AccountInv, Issued, SessionRow
  <2>4. ASSUME NEW q \in CookieRequests PROVE Checked(q)'
    <3>1. Checked(q)
      BY DEF AccountInv
    <3>2. request'[q] = request[q]
      BY <2>1
    <3>3. Issued(request[q].row) => request[q].row.under \in Nat
      BY DEF Issued, SessionRow
    <3> QED
      BY <2>1, <2>2, <2>3, <3>1, <3>2, <3>3 DEF Checked, AccountInv
  <2>5. sessions' \in [1 .. MaxSessions -> SessionRow \cup {None}]
    BY <2>1, <2>2
  <2>6. \A i \in 1 .. MaxSessions : sessions'[i] # None => Issued(sessions[i])'
    BY <2>2, <2>3 DEF Issued
  <2>7. \A k \in Logins :
           login'[k].at = "commit" => login'[k].id \in 1 .. MaxSessions /\ Issued(login[k].row)'
    BY <2>1, <2>3 DEF AccountInv, Issued
  <2>8. login' \in [Logins -> Slot] /\ request' \in [CookieRequests -> Slot] /\ now' \in Nat
    BY <2>1 DEF AccountInv
  <2>9. /\ reset' \in [at : {"idle", "revoke", "commit"}, read : Nat,
                       revoked : SUBSET (1 .. MaxSessions)]
        /\ reset'.at = "idle" /\ reset'.revoked = {}
    BY <2>1
  <2> QED
    BY <2>3, <2>4, <2>5, <2>6, <2>7, <2>8, <2>9 DEF AccountInv
<1>14. ASSUME NEW q \in CookieRequests, Account!ReadSession(q) PROVE AccountInv'
  <2>1. PICK i \in Account!Ids :
           /\ Account!Live(i) /\ now < sessions[i].expires
           /\ request' = [request EXCEPT ![q] =
                 [at |-> "user", id |-> i, row |-> sessions[i], ended |-> Account!Ended(i)]]
    BY <1>14 DEF Account!ReadSession
  <2>2. UNCHANGED <<now, password_version, sessions, login, reset, resets>>
    BY <1>14 DEF Account!ReadSession
  <2>3. Issued(sessions[i])
    BY <1>0, <2>1 DEF Account!Live, AccountInv
  <2>4. Account!Ended(i) \in BOOLEAN /\ (Account!Ended(i) => sessions[i].under < resets)
    BY <1>0, <2>1, <2>3 DEF Account!Ended, Account!Live, Issued, SessionRow, AccountInv
  <2> DEFINE s == [at |-> "user", id |-> i, row |-> sessions[i], ended |-> Account!Ended(i)]
  <2>5. /\ s \in Slot /\ s.at = "user" /\ s.id = i /\ s.row = sessions[i]
        /\ s.ended => sessions[i].under < resets
    BY <1>0, <2>3, <2>4 DEF Slot, Issued
  <2>6. request' = [request EXCEPT ![q] = s]
    BY <2>1
  <2> HIDE DEF s
  <2>7. request'[q] = s
    BY <2>6 DEF AccountInv
  <2>8. Checked(q)'
    BY <1>0, <2>2, <2>3, <2>5, <2>7 DEF Checked, Issued
  <2>9. now' \in Nat
    BY <2>2 DEF AccountInv
  <2> QED
    BY <1>1, <2>2, <2>5, <2>6, <2>8, <2>9
<1>15. ASSUME NEW q \in CookieRequests, Account!CheckUser(q) PROVE AccountInv'
  <2>1. /\ request[q].at = "user"
        /\ request' = [request EXCEPT ![q] =
              IF Account!Current(q) THEN [request[q] EXCEPT !.at = "accepted"]
              ELSE Account!Idle]
        /\ UNCHANGED <<now, password_version, sessions, login, reset, resets>>
    BY <1>15 DEF Account!CheckUser
  <2>2. request[q] \in Slot /\ Checked(q)
    BY DEF AccountInv
  <2> DEFINE s == [request[q] EXCEPT !.at = "accepted"]
  <2>3. CASE Account!Current(q)
    <3>1. /\ s \in Slot /\ s.at = "accepted" /\ s.id = request[q].id
          /\ s.row = request[q].row /\ s.ended = request[q].ended
      BY <2>2 DEF Slot
    <3>2. request' = [request EXCEPT ![q] = s]
      BY <2>1, <2>3
    <3> HIDE DEF s
    <3>3. request'[q] = s
      BY <3>2 DEF AccountInv
    <3>4. ~ request[q].ended
      <4>1. request[q].row.version = resets + 1 /\ Issued(request[q].row)
        BY <2>1, <2>2, <2>3 DEF Account!Current, AccountInv, Checked
      <4> QED
        BY <2>1, <2>2, <4>1 DEF Checked, Issued, SessionRow, AccountInv
    <3>5. Checked(q)'
      BY <2>1, <2>2, <3>1, <3>3, <3>4 DEF Checked, Issued
    <3> QED
      BY <1>1, <2>1, <3>1, <3>2, <3>5 DEF AccountInv
  <2>4. CASE ~Account!Current(q)
    <3>1. request' = [request EXCEPT ![q] = Account!Idle]
      BY <2>1, <2>4
    <3>2. Checked(q)'
      BY <1>0, <3>1 DEF Checked, AccountInv
    <3> QED
      BY <1>0, <1>1, <2>1, <3>1, <3>2 DEF AccountInv
  <2> QED
    BY <2>3, <2>4
<1>16. ASSUME NEW q \in CookieRequests, Account!Logout(q) PROVE AccountInv'
  <2>1. /\ request[q].at = "accepted"
        /\ sessions' = [sessions EXCEPT ![request[q].id] = Account!Revoked(request[q].id)]
        /\ request' = [request EXCEPT ![q] = Account!Idle]
        /\ UNCHANGED <<now, password_version, login, reset, resets>>
    BY <1>16 DEF Account!Logout
  <2> DEFINE i == request[q].id
  <2>2. i \in 1 .. MaxSessions /\ Issued(sessions[i])
    BY <2>1 DEF AccountInv, Checked
  <2>3. Issued(Account!Revoked(i))
    BY <2>2, RevokedRow
  <2>4. /\ sessions' \in [1 .. MaxSessions -> SessionRow \cup {None}]
        /\ \A k \in 1 .. MaxSessions :
              sessions'[k] = IF k = i THEN Account!Revoked(i) ELSE sessions[k]
    BY <2>1, <2>2, <2>3 DEF AccountInv, Issued
  <2>5. /\ request' \in [CookieRequests -> Slot]
        /\ \A p \in CookieRequests : request'[p] = IF p = q THEN Account!Idle ELSE request[p]
    BY <1>0, <2>1 DEF AccountInv
  <2> HIDE DEF i
  <2>6. \A k \in 1 .. MaxSessions : sessions'[k] # None => Issued(sessions[k])'
    BY <2>1, <2>3, <2>4 DEF AccountInv, Issued
  <2>7. \A p \in CookieRequests : Checked(p)'
    BY <1>0, <2>1, <2>3, <2>4, <2>5 DEF AccountInv, Issued, Checked
  <2>8. \A k \in reset'.revoked : Issued(sessions[k])'
    BY <2>1, <2>3, <2>4 DEF AccountInv, Issued
  <2> QED
    BY <2>1, <2>4, <2>5, <2>6, <2>7, <2>8 DEF AccountInv, Issued
<1>17. ASSUME NEW q \in CookieRequests, Account!Respond(q) PROVE AccountInv'
  <2>1. /\ request' = [request EXCEPT ![q] = Account!Idle]
        /\ UNCHANGED <<now, password_version, sessions, login, reset, resets>>
    BY <1>17 DEF Account!Respond
  <2>2. Checked(q)'
    BY <1>0, <2>1 DEF Checked, AccountInv
  <2> QED
    BY <1>0, <1>1, <2>1, <2>2 DEF AccountInv
<1> QED
  BY <1>3, <1>4, <1>5, <1>6, <1>7, <1>8, <1>10, <1>11, <1>12, <1>13, <1>14, <1>15, <1>16,
     <1>17 DEF Account!Next

\* THEOREM.  What has ended stays ended: no request is accepted on a session
\* that was logged out, had expired or was issued before a reset when its check
\* began, whatever a login and a reset committed in between.
THEOREM EndedStaysEnded == ServicesSpec => []EndedIsRefused
<1> DEFINE Inv == part = "account" => AccountInv
<1>1. ServicesInit => Inv
  BY AccountInit DEF ServicesInit
<1>2. Inv /\ [ServicesNext]_servicesVars => Inv'
  <2> SUFFICES ASSUME AccountInv, part = "account", [ServicesNext]_servicesVars PROVE AccountInv'
    BY DEF ServicesNext, servicesVars
  <2>1. Account!Next \/ UNCHANGED Account!vars
    BY DEF ServicesNext, AccountStep, servicesVars, signing, Account!vars
  <2> QED
    BY <2>1, AccountNext
<1>3. Inv => EndedIsRefused
  BY DEF AccountInv, Checked, EndedIsRefused, Account!EndedIsRefused
<1> QED
  BY <1>1, <1>2, <1>3, PTL DEF ServicesSpec

-----------------------------------------------------------------------------
\* A behaviour of the services is one of the workspace, so what is proved of
\* edits above holds beside the other services.
LEMMA ServicesKeepWorkspace == ServicesSpec => Spec
<1>1. ServicesInit => Init
  BY DEF ServicesInit
<1>2. [ServicesNext]_servicesVars => [Next]_vars
  BY DEF ServicesNext, WorkspaceStep, TickStep, FetchStep, ReportStep, AccountStep,
         servicesVars
<1> QED
  BY <1>1, <1>2, PTL DEF ServicesSpec, Spec
=============================================================================
