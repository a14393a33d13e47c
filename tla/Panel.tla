------------------------------- MODULE Panel -------------------------------
(***************************************************************************)
(* The panel as a whole: the start of the program (internal/app/app.go)    *)
(* with the migration of an older database (internal/db/db.go), the        *)
(* requests it serves, each by one of the components, and its exit at any  *)
(* moment, which keeps the database and the files and loses everything     *)
(* else.  The components meet in the position of a request, in the         *)
(* sessions that admit it, and in the database.                            *)
(***************************************************************************)
EXTENDS Sessions, Broker, PoolTable, Installer

VARIABLE tx  \* the migration's transaction: its view of the tables, or None

vars == <<boot, stage, authVars, brokerVars, tableVars, installVars, tx>>

Init == /\ boot = "off" /\ stage = [r \in R |-> "idle"] /\ tx = None
        /\ AuthInit /\ BrokerInit /\ TableInit /\ InstallInit
        /\ db = Fresh <=> password = None

\* config.Load and db.Open; the schema's statements change no row.
Load == /\ boot = "off" /\ boot' = IF db.legacy THEN "detach" ELSE "defaults"
        /\ active' = Resolved
        /\ UNCHANGED <<stage, authVars, brokerVars, tableVars, binary, scratch, selection, asset, tx>>

\* migrateProxyPoolsDropLegacy takes a connection, switches its foreign keys
\* off and begins; every statement works on the transaction's view.  Mutant of
\* Exec: no transaction, each statement commits by itself.
ExecCommitted(view, next) ==
  /\ tx' = view /\ boot' = next
  /\ db' = [db EXCEPT !.rows = view.rows, !.members = view.members]
  /\ UNCHANGED <<stage, authVars, brokerVars, fkOff, draft, raced, shared, installVars>>

Exec(view, next) == /\ tx' = view /\ boot' = next
                    /\ UNCHANGED <<stage, authVars, brokerVars, tableVars, installVars>>

Detach == /\ boot = "detach" /\ boot' = "create" /\ fkOff' = TRUE
          /\ tx' = [rows |-> db.rows, fresh |-> NoRows, members |-> db.members]
          /\ UNCHANGED <<stage, authVars, brokerVars, db, draft, raced, shared, installVars>>

CreateNew == boot = "create" /\ Exec([tx EXCEPT !.fresh = NoRows], "copy")
CopyRows  == boot = "copy" /\ Exec([tx EXCEPT !.fresh = tx.rows], "drop")

\* DROP TABLE deletes the rows first, which cascades if foreign keys are on.
DropOld   == boot = "drop" /\ Exec([tx EXCEPT !.rows = NoRows,
                                      !.members = IF fkOff THEN @ ELSE {}], "rename")
Rename    == boot = "rename" /\ Exec([tx EXCEPT !.rows = tx.fresh], "commit")

Commit == /\ boot = "commit" /\ boot' = "attach" /\ tx' = None
          /\ db' = [db EXCEPT !.rows = tx.rows, !.members = tx.members, !.legacy = FALSE]
          /\ UNCHANGED <<stage, authVars, brokerVars, fkOff, draft, raced, shared, installVars>>

\* Foreign keys on again, before the connection goes back into the pool.
Attach == /\ boot = "attach" /\ boot' = "defaults" /\ fkOff' = FALSE
          /\ UNCHANGED <<stage, authVars, brokerVars, db, draft, raced, shared, installVars, tx>>

\* EnsureDefaults; then the services are built and the panel listens.
Defaults == /\ boot = "defaults" /\ boot' = "on" /\ FirstPassword
            /\ UNCHANGED <<stage, session, expired, token, claim, straddled, brokerVars,
                           tableVars, installVars, tx>>

Boots == Load \/ Detach \/ CreateNew \/ CopyRows \/ DropOld \/ Rename \/ Commit
         \/ Attach \/ Defaults

\* The process ends: killed, or after a shutdown that did not wait for all.
Exit == /\ boot # "off" /\ boot' = "off"
        /\ stage' = [r \in R |-> IF At(r, "idle") THEN "idle" ELSE "done"]
        /\ session' = Nobody /\ expired' = {} /\ token' = Nobody /\ claim' = Nobody
        /\ straddled' = {} /\ clients' = {} /\ queue' = [r \in R |-> 0]
        /\ todo' = [r \in R |-> {}] /\ fkOff' = FALSE /\ raced' = {} /\ tx' = None
        /\ draft' = [r \in R |-> NoDraft] /\ asset' = [r \in R |-> NoFile]
        /\ active' = NoFile /\ UNCHANGED <<password, db, shared, binary, scratch, selection>>

\* A step of one component leaves the others' state alone.
AuthStep(A)    == A /\ UNCHANGED <<boot, brokerVars, tableVars, installVars, tx>>
BrokerStep(A)  == A /\ UNCHANGED <<boot, authVars, tableVars, installVars, tx>>
TableStep(A)   == A /\ UNCHANGED <<boot, authVars, brokerVars, installVars, tx>>
InstallStep(A) == A /\ UNCHANGED <<boot, authVars, brokerVars, tableVars, tx>>

\* The request is being served, and its handler does not wait for its client.
Busy(r) == stage[r] \notin {"idle", "done", "streaming"}

\* A handler's next step, which the scheduler cannot withhold for ever.
Serves(r) == /\ Busy(r)
             /\ \/ AuthStep(AuthServes(r)) \/ BrokerStep(BrokerServes(r))
                \/ TableStep(TableServes(r)) \/ InstallStep(InstallServes(r))
                \/ BrokerStep(Fail(r) /\ UNCHANGED brokerVars)

Next == \/ Boots \/ Exit
        \/ \E r \in R : \/ Serves(r) \/ AuthStep(Arrives(r)) \/ AuthStep(Expire(r))
                        \/ BrokerStep(Receive(r)) \/ BrokerStep(HangUp(r))

Spec == Init /\ [][Next]_vars
FairSpec == Spec /\ \A r \in R : WF_vars(Serves(r))

-----------------------------------------------------------------------------
Stages == {"idle", "done", "issue", "sweep", "rehash", "revoke", "save", "streaming",
           "leaving", "announce", "sending", "publish", "resending", "write", "flip", "activate"}
          \cup Protected \cup Locked
Boot   == {"off", "detach", "create", "copy", "drop", "rename", "commit", "attach",
           "defaults", "on"}
Views  == [rows : [P -> Row \cup {Absent}], fresh : [P -> Row \cup {Absent}],
           members : SUBSET P]

TypeOK ==
  /\ boot \in Boot /\ stage \in [R -> Stages] /\ tx \in Views \cup {None}
  /\ password \in Passwords \cup {None} /\ session \in [R -> Passwords \cup {None}]
  /\ expired \in SUBSET R /\ token \in [R -> R \cup {None}]
  /\ claim \in [R -> Passwords \cup {None}] /\ straddled \in SUBSET R
  /\ clients \in SUBSET R /\ queue \in [R -> 0..Room] /\ todo \in [R -> SUBSET R]
  /\ db \in Tables /\ fkOff \in BOOLEAN /\ raced \in SUBSET R /\ shared \in SUBSET P
  /\ draft \in [R -> [id : 0..MaxPools, row : Row \cup {Absent}]]
  /\ binary \in [Assets -> File \cup {NoFile}] /\ scratch \in [Assets -> File \cup {NoFile}]
  /\ selection \in Assets \cup {NoFile} /\ active \in Assets \cup {NoFile}
  /\ asset \in [R -> Assets \cup {NoFile}]

\* A change of the password ends the sessions given for an older one: a new login
\* is required (README-.md:225).  The code does not keep this.
OldSessionsEnd == \A t \in R :
  session[t] \notin {None, password} => \E r \in R : At(r, "revoke")

\* What it keeps: of the sessions given for an older password, only those are alive
\* that a change has still to revoke, and those whose login was verified before a
\* revocation and stored after it (auth/service.go:47-94).  No change of settings,
\* expiry, logout, restart or second change opens another way around a revocation.
SessionsRevoked == \A t \in R :
  session[t] \notin {None, password} => t \in straddled \/ \E r \in R : At(r, "revoke")

\* A publisher never sends on a channel that Unsubscribe has closed, which would
\* panic: the streams it has still to reach are subscribed (broker.go:35-61).
SendsReachOpen == \A r \in R : todo[r] \subseteq clients

\* Two pools share a username, so that it does not tell which is meant
\* (pools/service.go:294-328), only if a check and a write of two requests
\* crossed or an older release had left them so.  Requests one after the other
\* never get there, whatever they rename, switch off, delete or restart.
UsernamesOwn == \A p, q \in P :
  p # q /\ Exists(p) /\ Exists(q) /\ db.rows[p].user = db.rows[q].user
    => db.rows[p].user = Blank \/ p \in shared \/ q \in shared

\* The file that the selection names, and the one the manager starts, is a whole
\* executable, wherever an install failed, died or met another
\* (installer.go:165-226, config.go:144-170).
SelectedWhole == \A a \in {selection, active} \ {NoFile} :
  binary[a] = Whole

\* A pool is lost only to a request that deletes it, together with its members,
\* and members only to that or to a request that sets them; the password changes
\* only by a request that changes it, or the first start sets it.  Migration,
\* crash, restart and the saving of settings lose nothing (db.go:186-248).
NothingLost == [][
  /\ \A p \in P : Exists(p) /\ db'.rows[p] = Absent =>
       p \notin db'.members /\ \E r \in R : At(r, "delete") /\ stage'[r] = "announce"
  /\ \A p \in db.members \ db'.members :
       \E r \in R : stage[r] \in {"delete", "members"} /\ stage'[r] = "announce"
  /\ password' # password => password = None \/ \E r \in R : At(r, "rehash")]_vars

\* Whatever requests are being served, later all have been answered, except for
\* streams, which last until their browsers leave: a publisher waits for no slow
\* reader, an install for no dead one.
RequestsAnswered == (\E r \in R : Busy(r)) ~> (\A r \in R : ~Busy(r))

-----------------------------------------------------------------------------
(* What makes the invariants inductive, component by component.            *)

\* A login in flight has verified the password that is stored now, with the
\* same exceptions as for sessions.
AuthInv == /\ SessionsRevoked
           /\ \A t \in R : At(t, "issue") /\ claim[t] # password
                => t \in straddled \/ \E r \in R : At(r, "revoke")

\* Only a publisher that holds the read lock has channels left to send to.
BrokerInv == SendsReachOpen /\ \A r \in R : todo[r] # {} => Reading(r)

\* A row about to be written is as it was checked, unless others crossed it.
TableInv ==
  /\ UsernamesOwn /\ \A p \in P : Exists(p) => p <= db.last
  /\ \A r \in R : At(r, "flip") => draft[r].id \in P /\ draft[r].row \in Row
  /\ \A r \in R : At(r, "write") =>
       /\ draft[r].row \in [user : Users, on : BOOLEAN]
       /\ r \in raced \/ ~Taken(draft[r].row.user, draft[r].id)

\* The lock has one holder, whose target is missing until the rename; only
\* finished files get into their place.
InstallInv ==
  /\ SelectedWhole /\ \A a \in Assets : binary[a] \in {Whole, NoFile}
  /\ \A r, q \in R : stage[r] \in Locked /\ stage[q] \in Locked => r = q
  /\ \A r \in R :
       /\ stage[r] \in Locked \cup {"activate"} => asset[r] \in Assets
       /\ stage[r] \in {"copy", "chmod", "replace", "retry"} => scratch[asset[r]] \in File
       /\ At(r, "chmod") => "whole" \in scratch[asset[r]]
       /\ stage[r] \in {"replace", "retry"} => scratch[asset[r]] = Whole
       /\ stage[r] \in {"download", "copy", "chmod", "replace", "retry"} =>
            binary[asset[r]] = NoFile
       /\ stage[r] \in {"select", "activate"} => binary[asset[r]] = Whole

\* The transaction always holds every row somewhere, and every member.  Nobody
\* is served and nobody logged in while the program starts.
BootInv ==
  /\ fkOff => boot \in {"create", "copy", "drop", "rename", "commit", "attach"}
  /\ boot \in {"create", "copy", "drop", "rename", "commit"} =>
       tx \in Views /\ tx.members = db.members /\ fkOff
  /\ boot \in {"create", "copy", "commit"} => tx.rows = db.rows
  /\ boot \in {"drop", "rename"} => tx.fresh = db.rows
  /\ ~Up => session = Nobody /\ \A r \in R : stage[r] \in {"idle", "done"}

IInv == TypeOK /\ AuthInv /\ BrokerInv /\ TableInv /\ InstallInv /\ BootInv
=============================================================================
