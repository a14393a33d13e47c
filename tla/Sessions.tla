------------------------------ MODULE Sessions ------------------------------
(***************************************************************************)
(* Authentication (internal/auth/service.go) and the row of settings that  *)
(* it shares with internal/settings/service.go.  Sessions live in memory   *)
(* under a lock of their own; the password's hash lives in the database,   *)
(* and both a login and a change of the password read it, verify it for    *)
(* tens of milliseconds and act on what they have read.                    *)
(***************************************************************************)
EXTENDS Requests

CONSTANTS Passwords, Default, None

ASSUME SessionsAssumption == Default \in Passwords /\ None \notin Passwords

VARIABLES
  password,   \* whose hash is stored; None before the first start
  session,    \* Service.sessions by the login that made them: None if there
              \* is no such entry, or (history) the password it was given for
  expired,    \* the entries whose time is over
  token,      \* each request: the session in its cookie, while it needs it
  claim,      \* each request: the password it has read or will store
  straddled   \* history: logins verified before and stored after a revocation

authVars == <<password, session, expired, token, claim, straddled>>

Nobody == [r \in R |-> None]

AuthInit == /\ password \in {None} \cup Passwords
            /\ session = Nobody /\ expired = {} /\ token = Nobody /\ claim = Nobody
            /\ straddled = {}

Live(t) == session[t] # None /\ t \notin expired

\* Login: the hash is read and the password verified; a wrong one ends it.
Login(r, p) == /\ Up /\ At(r, "idle")
               /\ Goto(r, IF p = password THEN "issue" ELSE "done")
               /\ claim' = [claim EXCEPT ![r] = IF p = password THEN p ELSE None]
               /\ UNCHANGED <<password, session, expired, token, straddled>>

Issue(r) == /\ At(r, "issue") /\ Goto(r, "done")
            /\ session' = [session EXCEPT ![r] = claim[r]]
            /\ claim' = [claim EXCEPT ![r] = None]
            /\ UNCHANGED <<password, expired, token, straddled>>

\* RequireAuth: IsAuthenticated finds the cookie's session alive.
Admit(r, t, s) == /\ Up /\ At(r, "idle") /\ Live(t) /\ Goto(r, s)
                  /\ token' = [token EXCEPT ![r] = IF s = "logout" THEN t ELSE None]
                  /\ UNCHANGED <<password, session, expired, claim, straddled>>

\* ... or expired, which it deletes under the write lock; or not at all.
Refuse(r) == /\ Up /\ At(r, "idle") /\ UNCHANGED <<password, session, expired, claim, straddled>>
             /\ \/ \E t \in expired : Goto(r, "sweep") /\ token' = [token EXCEPT ![r] = t]
                \/ Goto(r, "done") /\ UNCHANGED token

\* The entries of ts leave the map.
Drop(ts) == /\ session' = [t \in R |-> IF t \in ts THEN None ELSE session[t]]
            /\ expired' = expired \ ts

\* The second look of IsAuthenticated, and Logout.
Remove(r) == /\ stage[r] \in {"sweep", "logout"} /\ Goto(r, "done")
             /\ Drop({token[r]}) /\ token' = [token EXCEPT ![r] = None]
             /\ UNCHANGED <<password, claim, straddled>>

\* ChangePassword: verify the old one, store the new one, then revoke.
Verify(r, old, new) == /\ At(r, "password")
                       /\ Goto(r, IF old = password THEN "rehash" ELSE "done")
                       /\ claim' = [claim EXCEPT ![r] = IF old = password THEN new ELSE None]
                       /\ UNCHANGED <<password, session, expired, token, straddled>>

\* InvalidateAllSessions.  Mutant of Revoked: it only cleans up expired entries.
RevokedExpired == Drop(expired) /\ straddled' = {r \in R : At(r, "issue")}
Revoked        == Drop(R) /\ straddled' = {r \in R : At(r, "issue")}

Rehash(r) == /\ At(r, "rehash") /\ Goto(r, "revoke")
             /\ password' = claim[r] /\ claim' = [claim EXCEPT ![r] = None]
             /\ UNCHANGED <<session, expired, token, straddled>>

Invalidate(r) == /\ At(r, "revoke") /\ Goto(r, "done") /\ Revoked
                 /\ UNCHANGED <<password, token, claim>>

\* settings.Update: the row is read, and written but for the column of the hash.
ReadSettings(r) == /\ At(r, "settings") /\ Goto(r, "save")
                   /\ claim' = [claim EXCEPT ![r] = password]
                   /\ UNCHANGED <<password, session, expired, token, straddled>>

HashSaved(r) == password

SaveSettings(r) == /\ At(r, "save")
                   /\ \/ Goto(r, "publish")
                      \/ Goto(r, "done")   \* only a restart will apply them
                   /\ password' = HashSaved(r) /\ claim' = [claim EXCEPT ![r] = None]
                   /\ UNCHANGED <<session, expired, token, straddled>>

\* EnsureDefaults: the row is inserted once.
FirstPassword == password' = IF password = None THEN Default ELSE password

AuthServes(r) == Issue(r) \/ Remove(r) \/ Rehash(r) \/ Invalidate(r)
                 \/ ReadSettings(r) \/ SaveSettings(r)
                 \/ \E old, new \in Passwords : Verify(r, old, new)

Arrives(r) == \/ \E p \in Passwords : Login(r, p)
              \/ \E t \in R, s \in Protected : Admit(r, t, s)
              \/ Refuse(r)

\* sessionMaxAge passes.
Expire(t) == /\ Live(t) /\ expired' = expired \cup {t}
             /\ UNCHANGED <<stage, password, session, token, claim, straddled>>
=============================================================================
