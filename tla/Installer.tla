----------------------------- MODULE Installer -----------------------------
(***************************************************************************)
(* The installer of Mihomo (internal/mihomo/installer.go), the activation  *)
(* that follows it (web/server.go, mihomo/manager.go), and the choice of a *)
(* binary at the next start (internal/config/config.go).  A release is     *)
(* unpacked beside its place, made executable, renamed into its place and  *)
(* named by the selection file.  The files survive the process.            *)
(***************************************************************************)
EXTENDS Requests

CONSTANTS Assets, NoFile  \* the release's assets for this host; no such file

\* What a file has got: its last byte, the permission to execute it.
File  == {{}, {"whole"}, {"exec"}, {"whole", "exec"}}
Whole == {"whole", "exec"}

ASSUME InstallerAssumption == NoFile \notin File \cup Assets

VARIABLES
  binary,    \* the file at the InstallPath of each asset
  scratch,   \* InstallPath.tmp of each
  selection, \* the path in mihomo-binary.txt, by its asset
  active,    \* Manager.binaryPath, NoFile for one that was not installed here
  asset      \* each request: the asset it installs

installVars == <<binary, scratch, selection, active, asset>>

NoFiles == [a \in Assets |-> NoFile]

InstallInit == /\ binary = NoFiles /\ scratch = NoFiles
               /\ selection = NoFile /\ active = NoFile /\ asset = [r \in R |-> NoFile]

\* The positions between i.mu.Lock and the return of Install.
Locked   == {"chosen", "download", "copy", "chmod", "replace", "retry", "select"}
\* Mutant of LockFree: the lock is not held while the archive is unpacked.
LockFreeEarly == \A r \in R : stage[r] \notin Locked \ {"copy"}
LockFree      == \A r \in R : stage[r] \notin Locked

Executable(a) == a \in Assets /\ binary[a] # NoFile /\ "exec" \in binary[a]

\* The release is fetched and an asset picked under the lock; either may fail.
Lock(r) == /\ At(r, "install") /\ LockFree
           /\ \/ \E a \in Assets : /\ Goto(r, "chosen")
                                   /\ asset' = [asset EXCEPT ![r] = a]
              \/ Goto(r, "done") /\ UNCHANGED asset
           /\ UNCHANGED <<binary, scratch, selection, active>>

\* A regular file that is in place already is only selected.
Stat(r) == /\ At(r, "chosen")
           /\ Goto(r, IF binary[asset[r]] = NoFile THEN "download" ELSE "select")
           /\ UNCHANGED installVars

\* The archive is there; os.Create truncates what an earlier run has left.
Extract(r) == LET old == scratch[asset[r]] IN
  /\ At(r, "download") /\ Goto(r, "copy")
  /\ scratch' = [scratch EXCEPT ![asset[r]] = IF old = NoFile THEN {} ELSE old \ {"whole"}]
  /\ UNCHANGED <<binary, selection, active, asset>>

\* The last byte is copied; then os.Chmod.  Both expect the file to be there.
Improve(r, s, t, gain) == /\ At(r, s) /\ scratch[asset[r]] # NoFile /\ Goto(r, t)
                          /\ scratch' = [scratch EXCEPT ![asset[r]] = @ \cup {gain}]
                          /\ UNCHANGED <<binary, selection, active, asset>>

Copied(r) == Improve(r, "copy", "chmod", "whole")
Chmod(r)  == Improve(r, "chmod", "replace", "exec")

\* replaceFile: rename; or, if that fails, remove the target and rename again.
Unlink(r)  == /\ At(r, "replace") /\ Goto(r, "retry")
              /\ binary' = [binary EXCEPT ![asset[r]] = NoFile]
              /\ UNCHANGED <<scratch, selection, active, asset>>

Replace(r) == /\ stage[r] \in {"replace", "retry"} /\ scratch[asset[r]] # NoFile
              /\ Goto(r, "select")
              /\ binary' = [binary EXCEPT ![asset[r]] = scratch[asset[r]]]
              /\ scratch' = [scratch EXCEPT ![asset[r]] = NoFile]
              /\ UNCHANGED <<selection, active, asset>>

\* The selection file is replaced as a whole; the lock is released.
Select(r) == /\ At(r, "select") /\ Goto(r, "activate")
             /\ selection' = asset[r]
             /\ UNCHANGED <<binary, scratch, active, asset>>

\* Any of these steps fails; the deferred calls remove the temporary files.
InstallFails(r) == /\ stage[r] \in Locked \ {"chosen"} /\ Goto(r, "done")
                   /\ scratch' = IF At(r, "select") THEN scratch
                                 ELSE [scratch EXCEPT ![asset[r]] = NoFile]
                   /\ UNCHANGED <<binary, selection, active, asset>>

\* ActivateBinary, after the lock: the path is looked up and becomes the
\* manager's.  Stop and Start of the processes are the module Supervisor's.
Activate(r) == /\ At(r, "activate") /\ Goto(r, "done")
               /\ active' = IF Executable(asset[r]) THEN asset[r] ELSE active
               /\ UNCHANGED <<binary, scratch, selection, asset>>

\* resolveMihomoBinary at the start of the program.
Resolved == IF Executable(selection) THEN selection ELSE NoFile

InstallServes(r) == \/ Lock(r) \/ Stat(r) \/ Extract(r) \/ Copied(r) \/ Chmod(r)
                    \/ Unlink(r) \/ Replace(r) \/ Select(r) \/ InstallFails(r) \/ Activate(r)
=============================================================================
