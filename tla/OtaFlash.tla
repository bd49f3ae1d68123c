------------------------------ MODULE OtaFlash ------------------------------
(***************************************************************************)
(* The board's side of a firmware update: otaflash.py (begin, chunk,       *)
(* commit, finalize, recover_if_pending), the boot.py that calls recovery  *)
(* and the code.py that calls the rest, on a filesystem that survives a    *)
(* reset at any moment, file operation by file operation.                  *)
(*                                                                         *)
(* The content of a file is the number of the bundle it came from; 0 is    *)
(* the firmware the board was deployed with.  A bundle holds every file.   *)
(*                                                                         *)
(* Any operation on a file may fail: recovery and finalization swallow the *)
(* error and go on, a commit raises where it is.  A bad firmware hangs in  *)
(* its session, where the watchdog is armed, or it stops or loops before   *)
(* it has a network, where it is armed only if the process before had it   *)
(* armed and ended in a soft reload (scripts/wipe-pico.sh: at the REPL it  *)
(* goes on counting).                                                      *)
(*                                                                         *)
(* Left out: bundles of some of the files (scope), chunk boundaries, and a *)
(* watchdog that the settings disable.  A begin or a chunk that fails is   *)
(* one after which the staging area does not verify.                       *)
(***************************************************************************)
EXTENDS Integers, Sequences, Functions

CONSTANTS
  Manifest,    \* the bundle's files, in the order commit swaps them
  Flasher,     \* the file that is otaflash.py, which boot.py imports
  Bundles,     \* numbers of the bundles that may be pushed
  MaxMishaps   \* bound: mishaps in a behaviour

Files == Range(Manifest)
Versions == {0} \union Bundles
Corrupt == -1
NoFile == -2     \* no such file

ASSUME ManifestAssumption == Manifest \in Seq(Files) /\ Flasher \in Files
ASSUME BundlesAssumption == Bundles \subseteq Nat \ {0}
ASSUME MishapsAssumption == MaxMishaps \in Nat

VARIABLES
  good,      \* firmware that runs; the rest hangs or stops before its first heartbeat
  \* the filesystem
  live, bak, staged, \* each file, its .bak and its staging file
  marker,    \* /ota_pending.json: "none", "torn", or "listed" (it lists Manifest)
  \* the processor
  pc,        \* "boot", "recover", "start", "run", "commit", "finalize", "hung", "stopped"
  cause,     \* reset_reason of the last hard reset: "power" or "watchdog"
  armed,     \* the watchdog counts
  todo,      \* files the current loop has still to handle
  image,     \* the firmware that was started, as it then was on the filesystem
  \* the OTA object of the running firmware
  done,      \* self._done
  transfer,  \* "none", "begun", "intact", "corrupt", or "spent":
             \* it was intact, and a commit that raised may have used it up
  \* observed by properties only
  proven,    \* the firmware now installed has itself run to a heartbeat
  mishaps    \* how often a file operation failed after the transfer, or without a notice in
             \* it, a reset came within a loop over the files, or the result of a commit
             \* could not be sent

disk == <<live, bak, staged, marker>>
flashVars == <<good, live, bak, staged, marker, pc, cause, armed, todo, image, done, transfer,
               proven, mishaps>>

Uniform(img) == \E v \in Versions : \A f \in Files : img[f] = v
Healthy(img) == \E v \in good : \A f \in Files : img[f] = v

\* no firmware runs
NoFirmware == [f \in Files |-> NoFile]

Mishap == mishaps < MaxMishaps /\ mishaps' = mishaps + 1

FlashInit ==
  /\ good \in {S \in SUBSET Versions : 0 \in S}
  /\ live = [f \in Files |-> 0]
  /\ bak = [f \in Files |-> NoFile]
  /\ staged = [f \in Files |-> NoFile]
  /\ marker = "none"
  /\ pc = "boot" /\ cause = "power" /\ armed = FALSE /\ todo = <<>>
  /\ image = NoFirmware
  /\ done = FALSE /\ transfer = "none"
  /\ proven = TRUE /\ mishaps = 0

-----------------------------------------------------------------------------
(* Resets and boot.py: recover_if_pending.                                 *)

\* power loss, or the watchdog; the filesystem is as the last operation left it
Reset(why) ==
  /\ pc' = "boot" /\ cause' = why /\ armed' = FALSE /\ todo' = <<>>
  /\ image' = NoFirmware /\ done' = FALSE /\ transfer' = "none"
  /\ IF pc \in {"recover", "commit", "finalize"} THEN Mishap ELSE UNCHANGED mishaps
  /\ UNCHANGED <<good, disk, proven>>

Interrupt == \E why \in {"power", "watchdog"} : Reset(why)

WatchdogReset == pc \in {"hung", "stopped"} /\ armed /\ Reset("watchdog")


\* "if this boot followed a watchdog reset"
WasWatchdog == cause = "watchdog"

\* the marker is read; without otaflash.py, or with a torn marker, boot.py
\* prints the exception and goes on
Boot ==
  /\ pc = "boot"
  /\ IF marker \in {"none", "torn"} \/ live[Flasher] = NoFile \/ ~WasWatchdog
       THEN pc' = "start" /\ UNCHANGED todo
       ELSE pc' = "recover" /\ todo' = Manifest
  /\ UNCHANGED <<good, disk, cause, armed, image, done, transfer, proven, mishaps>>

\* restore one file: skip it, or remove what is there, then rename the .bak
RecoverFile ==
  /\ pc = "recover" /\ todo # <<>>
  /\ LET f == Head(todo) IN
       \/ /\ bak[f] = NoFile
          /\ todo' = Tail(todo) /\ UNCHANGED <<live, bak>>
       \/ /\ bak[f] # NoFile /\ live[f] # NoFile
          /\ live' = [live EXCEPT ![f] = NoFile] /\ UNCHANGED <<bak, todo>>
       \/ /\ bak[f] # NoFile /\ live[f] = NoFile
          /\ live' = [live EXCEPT ![f] = bak[f]] /\ bak' = [bak EXCEPT ![f] = NoFile]
          /\ todo' = Tail(todo)
  /\ UNCHANGED <<good, staged, marker, pc, cause, armed, image, done, transfer, proven, mishaps>>

\* its remove or its rename raises: on to the next file
RecoverFails ==
  /\ pc = "recover" /\ todo # <<>> /\ bak[Head(todo)] # NoFile
  /\ todo' = Tail(todo) /\ Mishap
  /\ UNCHANGED <<good, disk, pc, cause, armed, image, done, transfer, proven>>

\* the marker goes, or stays if its removal fails
Reverted ==
  /\ pc = "recover" /\ todo = <<>>
  /\ \/ marker' = "none" /\ UNCHANGED mishaps
     \/ Mishap /\ UNCHANGED marker
  /\ pc' = "start"
  /\ UNCHANGED <<good, live, bak, staged, cause, armed, todo, image, done, transfer, proven>>

\* code.py starts.  A good firmware comes to its session, a bad one hangs there or does
\* not get that far, and of a mixture, or one with a file missing, anything may come.
Start ==
  /\ pc = "start"
  /\ image' = live
  /\ pc' \in IF Healthy(live) THEN {"run"}
             ELSE IF Uniform(live) THEN {"hung", "stopped"} ELSE {"run", "hung", "stopped"}
  /\ armed' = (armed \/ pc' # "stopped")
  /\ UNCHANGED <<good, disk, cause, todo, done, transfer, proven, mishaps>>

-----------------------------------------------------------------------------
(* A push, as its frames arrive.                                           *)

\* "from otaflash import OTA" had a file to import
Flashes == image[Flasher] # NoFile

\* a slip that FlashTypeOK must notice: the files are wiped, the totals are not
BeginKeepsTotals ==
  /\ pc = "run" /\ Flashes
  /\ staged' = [f \in Files |-> NoFile]
  /\ transfer' = IF transfer = "none" THEN "begun" ELSE transfer
  /\ UNCHANGED <<good, live, bak, marker, pc, cause, armed, todo, image, done, proven, mishaps>>

\* ota_begin wipes the staging area, whatever was in progress
Begin ==
  /\ pc = "run" /\ Flashes
  /\ staged' = [f \in Files |-> NoFile]
  /\ transfer' = "begun"
  /\ UNCHANGED <<good, live, bak, marker, pc, cause, armed, todo, image, done, proven, mishaps>>

\* the chunks of bundle v arrive, or other ones between them, or closing a file fails:
\* the error is swallowed, and what is hashed is what was received
Chunks(v) ==
  /\ pc = "run" /\ transfer = "begun"
  /\ \/ staged' = [f \in Files |-> v] /\ transfer' = "intact" /\ UNCHANGED mishaps
     \/ staged' = [f \in Files |-> Corrupt] /\ transfer' = "corrupt" /\ UNCHANGED mishaps
     \/ staged' = [f \in Files |-> Corrupt] /\ transfer' = "intact" /\ Mishap
  /\ UNCHANGED <<good, live, bak, marker, pc, cause, armed, todo, image, done, proven>>

\* every size and SHA-256 matches: of what was written, which a commit that raised
\* may have moved away since
Verified == transfer \in {"intact", "spent"}

Commit ==
  /\ pc = "run" /\ Verified
  /\ pc' = "commit" /\ todo' = Manifest
  /\ proven' = FALSE
  /\ UNCHANGED <<good, disk, cause, armed, image, done, transfer, mishaps>>

\* a slip that WholeUnlessMishap must notice: the old file is not kept
SwapNoBackup ==
  /\ pc = "commit" /\ todo # <<>>
  /\ LET f == Head(todo) IN
       /\ live' = [live EXCEPT ![f] = staged[f]] /\ staged' = [staged EXCEPT ![f] = NoFile]
       /\ todo' = Tail(todo)
  /\ UNCHANGED <<good, bak, marker, pc, cause, armed, image, done, transfer, proven, mishaps>>

\* swap one file: _replace(dst, bak) is up to two operations, then the staged
\* file, if it is there, is renamed to a name that is free
SwapFile ==
  /\ pc = "commit" /\ todo # <<>>
  /\ LET f == Head(todo) IN
       \/ /\ live[f] # NoFile /\ bak[f] # NoFile
          /\ bak' = [bak EXCEPT ![f] = NoFile] /\ UNCHANGED <<live, staged, todo>>
       \/ /\ live[f] # NoFile /\ bak[f] = NoFile
          /\ bak' = [bak EXCEPT ![f] = live[f]] /\ live' = [live EXCEPT ![f] = NoFile]
          /\ UNCHANGED <<staged, todo>>
       \/ /\ live[f] = NoFile /\ staged[f] # NoFile
          /\ live' = [live EXCEPT ![f] = staged[f]] /\ staged' = [staged EXCEPT ![f] = NoFile]
          /\ todo' = Tail(todo) /\ UNCHANGED bak
  /\ UNCHANGED <<good, marker, pc, cause, armed, image, done, transfer, proven, mishaps>>

\* open(_PENDING, "w") empties the marker, json.dump fills it
OpenMarker ==
  /\ pc = "commit" /\ todo = <<>> /\ marker # "torn"
  /\ marker' = "torn"
  /\ UNCHANGED <<good, live, bak, staged, pc, cause, armed, todo, image, done, transfer, proven,
                 mishaps>>

\* a rename raises (into a directory that the board lacks, of a file that an earlier
\* commit moved, or for want of space), or writing the marker does: the result is
\* "failed" and the session goes on, with the files as they are
CommitRaises ==
  /\ pc = "commit"
  /\ pc' = "run" /\ todo' = <<>> /\ transfer' = "spent" /\ Mishap
  /\ UNCHANGED <<good, disk, cause, armed, image, done, proven>>

\* then the result is sent and supervisor.reload() starts code.py without
\* boot.py; or the send raises, and the old firmware goes on
Committed ==
  /\ pc = "commit" /\ todo = <<>> /\ marker = "torn"
  /\ marker' = "listed"
  /\ transfer' = "none"
  /\ \/ pc' = "start" /\ image' = NoFirmware /\ done' = FALSE /\ UNCHANGED mishaps
     \/ pc' = "run" /\ Mishap /\ UNCHANGED <<image, done>>
  /\ UNCHANGED <<good, live, bak, staged, cause, armed, todo, proven>>

\* a slip that ProvenIsKept must notice: nothing is finalized
HeartbeatOnly ==
  /\ pc = "run" /\ ~done /\ Flashes
  /\ done' = TRUE
  /\ proven' = (proven \/ image = live)
  /\ UNCHANGED <<good, disk, pc, cause, armed, todo, image, transfer, mishaps>>

\* finalize, at the first heartbeat of a process and never again in it; a torn
\* marker raises into code.py, which swallows it
FirstHeartbeat ==
  /\ pc = "run" /\ ~done /\ Flashes
  /\ done' = TRUE
  /\ proven' = (proven \/ image = live)
  /\ IF marker \in {"none", "torn"} THEN UNCHANGED <<pc, todo>>
                                    ELSE pc' = "finalize" /\ todo' = Manifest
  /\ UNCHANGED <<good, disk, cause, armed, image, transfer, mishaps>>

\* errors are swallowed
FinalizeFile ==
  /\ pc = "finalize" /\ todo # <<>>
  /\ \/ bak' = [bak EXCEPT ![Head(todo)] = NoFile] /\ UNCHANGED mishaps
     \/ bak[Head(todo)] # NoFile /\ Mishap /\ UNCHANGED bak
  /\ todo' = Tail(todo)
  /\ UNCHANGED <<good, live, staged, marker, pc, cause, armed, image, done, transfer, proven>>

Finalized ==
  /\ pc = "finalize" /\ todo = <<>>
  /\ \/ marker' = "none" /\ UNCHANGED mishaps
     \/ Mishap /\ UNCHANGED marker
  /\ pc' = "run"
  /\ UNCHANGED <<good, live, bak, staged, cause, armed, todo, image, done, transfer, proven>>

\* a reboot command: supervisor.reload()
Reload ==
  /\ pc = "run"
  /\ pc' = "start" /\ image' = NoFirmware /\ done' = FALSE /\ transfer' = "none"
  /\ UNCHANGED <<good, disk, cause, armed, todo, proven, mishaps>>

Working ==
  \/ Boot \/ RecoverFile \/ RecoverFails \/ Reverted \/ Start
  \/ SwapFile \/ OpenMarker \/ CommitRaises \/ Committed \/ FinalizeFile \/ Finalized

FlashNext ==
  \/ Working \/ Interrupt \/ WatchdogReset
  \/ Begin \/ Commit \/ FirstHeartbeat \/ Reload
  \/ \E v \in Bundles : Chunks(v)

FlashSpec == FlashInit /\ [][FlashNext]_flashVars

\* the processor runs, and an armed watchdog bites
FairFlashSpec == FlashSpec /\ WF_flashVars(Working) /\ WF_flashVars(WatchdogReset)

-----------------------------------------------------------------------------
(* Properties *)

\* Every variable has its type, only what verified is committed, and unless there was a
\* mishap a transfer counted as intact is one, the staging area holding all of one bundle.
FlashTypeOK ==
  LET Content == Versions \union {Corrupt, NoFile} IN
  /\ good \subseteq Versions
  /\ live \in [Files -> Content] /\ bak \in [Files -> Content]
  /\ staged \in [Files -> Content] /\ image \in [Files -> Content]
  /\ marker \in {"none", "torn", "listed"}
  /\ pc \in {"boot", "recover", "start", "run", "commit", "finalize", "hung", "stopped"}
  /\ cause \in {"power", "watchdog"} /\ armed \in BOOLEAN
  /\ todo \in Seq(Files)
  /\ done \in BOOLEAN /\ proven \in BOOLEAN /\ mishaps \in 0..MaxMishaps
  /\ transfer \in {"none", "begun", "intact", "corrupt", "spent"}
  /\ pc = "commit" => Verified
  /\ mishaps = 0 /\ transfer = "intact" /\ pc # "commit"
       => \E v \in Bundles : \A f \in Files : staged[f] = v

\* Whatever was pushed, lost, committed and reverted, and whenever resets struck outside
\* the loops over the files: the board starts the whole firmware of one bundle, and one
\* that does not come to a heartbeat has a whole good one kept, and marked, behind it
\* (otaflash.py).  A firmware is lost only by a mishap.
WholeUnlessMishap ==
  mishaps = 0 =>
    /\ pc = "start" => Uniform(live)
    /\ pc \in {"hung", "stopped"} => marker = "listed" /\ Healthy(bak)

\* "A later unrelated reset can never revert a firmware that already works"
\* (otaflash.py): once the installed firmware has run to a heartbeat, recovery
\* leaves every file as it is, unless there was a mishap.
ProvenIsKept ==
  [][proven /\ pc = "recover" /\ mishaps = 0 => live' = live]_flashVars

\* A board whose update hangs comes back by itself, however pushes, reloads and
\* resets followed each other before the resets cease, unless there was a mishap, or
\* the firmware stops before the watchdog is armed.
Stuck == pc = "stopped" /\ ~armed

=============================================================================
