------------------------------ MODULE Updater ------------------------------
(***************************************************************************)
(* Updater.Apply (internal/agent/updater.go): the files of an agent while  *)
(* it replaces its own binary.  Every statement is a step; each may fail,  *)
(* and the process may die between any two.  One call at a time; nothing   *)
(* in the repository makes one, "must be explicitly invoked".              *)
(***************************************************************************)
EXTENDS Integers

CONSTANTS Release, \* versions of the binary
          Broken,  \* the content of a file that is none of them
          Gone     \* no file

VARIABLES bin, bak, new,  \* the binary, its .bak and its .new
          want,           \* the release that is being installed
          step            \* the statement Apply is at, "idle" outside it

updaterVars == <<bin, bak, new, want, step>>

Content == Release \union {Broken, Gone}
Statement == {"download", "verify", "chmod", "backup", "replace", "restore"}

ASSUME UpdaterAssumption == Broken \notin Release /\ Gone \notin Release \union {Broken}

UpdaterInit ==
  /\ bin \in Release /\ bak = Gone /\ new = Gone /\ want = bin /\ step = "idle"

\* With a release the binary is not, its URL and its checksum.
ShouldUpdate(v) == v # bin

Apply(v) ==
  /\ step = "idle" /\ ShouldUpdate(v)
  /\ want' = v /\ step' = "download"
  /\ UNCHANGED <<bin, bak, new>>

Does(s, next) == step = s /\ step' = next /\ UNCHANGED want

\* Failing before the backup removes .new, if it can be removed.
GiveUp ==
  /\ step \in {"download", "verify", "chmod"} /\ step' = "idle"
  /\ new' \in {new, Gone}
  /\ UNCHANGED <<bin, bak, want>>

\* Another file than the one expected, or a part of it, may come.
Download ==
  /\ Does("download", "verify")
  /\ new' \in Release \union {Broken}
  /\ UNCHANGED <<bin, bak>>

\* The download breaks off half-way; its error is noticed.
DownloadBreaks ==
  /\ Does("download", "download")
  /\ new' = Broken
  /\ UNCHANGED <<bin, bak>>

\* Variant: the checksum of what was downloaded is not compared.
VerifyNothing ==
  /\ Does("verify", "chmod")
  /\ UNCHANGED <<bin, bak, new>>
VerifyChecksum ==
  /\ Does("verify", "chmod")
  /\ new = want
  /\ UNCHANGED <<bin, bak, new>>

Chmod == Does("chmod", "backup") /\ UNCHANGED <<bin, bak, new>>

\* Renaming the binary away; when that fails it is only logged.
Backup ==
  /\ Does("backup", "replace")
  /\ \/ bin # Gone /\ bak' = bin /\ bin' = Gone
     \/ UNCHANGED <<bin, bak>>
  /\ UNCHANGED new

Replace ==
  /\ Does("replace", "idle")
  /\ bin' = new /\ new' = Gone
  /\ UNCHANGED bak

ReplaceFails == Does("replace", "restore") /\ UNCHANGED <<bin, bak, new>>

\* The error of the way back is not looked at.
Restore ==
  /\ Does("restore", "idle")
  /\ \/ bak # Gone /\ bin' = bak /\ bak' = Gone
     \/ UNCHANGED <<bin, bak>>
  /\ UNCHANGED new

Die == step # "idle" /\ step' = "idle" /\ UNCHANGED <<bin, bak, new, want>>

UpdaterNext ==
  \/ \E v \in Release : Apply(v)
  \/ GiveUp \/ Download \/ DownloadBreaks \/ VerifyChecksum \/ Chmod
  \/ Backup \/ Replace \/ ReplaceFails \/ Restore \/ Die

UpdaterSpec == UpdaterInit /\ [][UpdaterNext]_updaterVars

UpdaterTypeOK ==
  /\ bin \in Content /\ bak \in Content /\ new \in Content
  /\ want \in Release /\ step \in Statement \union {"idle"}

\* After any number of updates, each failing or dying anywhere, the binary is a whole
\* release, or there is none and the backup is one (updater.go:88-97): an agent that an
\* update leaves behind can be started, or put back by hand.  It is not said which
\* release, nor that the one before is still there: when renaming it away has failed, the
\* new binary takes its place.
BinarySurvives == bin \in Release \/ (bin = Gone /\ bak \in Release)
=============================================================================
