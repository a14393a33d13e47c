------------------------------ MODULE Requests ------------------------------
(***************************************************************************)
(* The web panel's request threads (internal/web/server.go): net/http runs *)
(* a goroutine for each request, and a handler calls the services step by  *)
(* step.  The services share no lock, so that their steps interleave.      *)
(* boot is the position of app.Run; a request is accepted once it is "on". *)
(* stage[r] is the position of the request r: "idle" before it arrives and *)
(* "done" when it is answered or died with the process.                    *)
(***************************************************************************)
CONSTANT R    \* the requests, each of them served at most once

VARIABLES boot, stage

Up         == boot = "on"
At(r, s)   == stage[r] = s
Goto(r, s) == stage' = [stage EXCEPT ![r] = s]

\* What RequireAuth lets through, by the operation behind the route.
Protected == {"logout", "password", "settings", "stream", "create", "update", "delete",
              "toggle", "members", "install"}

\* A statement of the request fails: its client is gone or the database busy.
Fail(r) == /\ stage[r] \in {"rehash", "save", "write", "flip", "delete", "members", "activate"}
           /\ Goto(r, "done")
=============================================================================
