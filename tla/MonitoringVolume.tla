-------------------------- MODULE MonitoringVolume --------------------------
(***************************************************************************)
(* The monitoring volume: one VHDX whose ext4 filesystem observability-    *)
(* volume.py formats once, finds by the UUID Windows recorded before, and  *)
(* mounts inside the worker's /var.  Two runs of the Windows script        *)
(* (Mount-TnwksObservability.ps1) can be under way: the scheduled task's,  *)
(* and an operator's with -Initialize.  Any command can fail, WSL can      *)
(* restart under them, and the pods that hold a claim start whenever the   *)
(* node does.  Not modelled: other disks (the helper refuses an ambiguous  *)
(* one) and a recreated worker.                                            *)
(***************************************************************************)
EXTENDS Naturals

CONSTANTS
    Task, Operator,   \* the two runs
    MaxVolumeFaults   \* bound: failing commands and restarts of WSL

ASSUME VolumeAssumption == Task # Operator /\ MaxVolumeFaults \in Nat

VARIABLES
    volumePhase, \* volume.json: "none", "pending", "initialized"
    content,    \* what the VHDX holds: "noFile", "blank", "ours"
    data,       \* pods have written to it
    attached,   \* to the distro
    mounted,    \* at the mountpoint
    immutable,  \* the bare mountpoint is chattr +i
    stray,      \* the bare mountpoint holds files
    claimed,    \* a pod has a claim: made with the marker in sight
    at,         \* at[r]: where run r is
    volumeFaults

volumeVars == <<volumePhase, content, data, attached, mounted, immutable, stray, claimed, at, volumeFaults>>
Runs == {Task, Operator}

\* A mount needs the disk and our filesystem; the scheduled task never formats.
VolumeTypeOK ==
    /\ volumePhase \in {"none", "pending", "initialized"} /\ content \in {"noFile", "blank", "ours"}
    /\ {data, attached, mounted, immutable, stray, claimed} \subseteq BOOLEAN
    /\ at \in [Runs -> {"idle", "create", "unmount", "bareNew", "initialize", "check", "bare",
                        "attach", "protect", "mount", "record"}]
    /\ at[Task] \in {"idle", "check", "bare", "attach", "protect", "mount"}
    /\ mounted => attached /\ content = "ours"
    /\ volumeFaults \in 0 .. MaxVolumeFaults

VolumeInit ==
    /\ volumePhase = "none" /\ content = "noFile" /\ at = [r \in Runs |-> "idle"] /\ volumeFaults = 0
    /\ data = FALSE /\ attached = FALSE /\ mounted = FALSE
    /\ immutable = FALSE /\ stray = FALSE /\ claimed = FALSE

Goto(r, where) == at' = [at EXCEPT ![r] = where]
VolumeFault == volumeFaults < MaxVolumeFaults /\ volumeFaults' = volumeFaults + 1
disk == <<content, data, attached, mounted>>
point == <<immutable, stray, claimed>>

-----------------------------------------------------------------------------
(* The script                                                              *)

\* Only -Initialize starts a volume or goes on with an unfinished one; the UUID is
\* recorded before anything else.
StartVolume(r) ==
    /\ at[r] = "idle"
    /\ \/ /\ volumePhase = "none" /\ r = Operator /\ content = "noFile"
          /\ volumePhase' = "pending" /\ Goto(r, "create")
       \/ /\ volumePhase = "pending" /\ r = Operator /\ UNCHANGED volumePhase
          /\ Goto(r, IF content = "noFile" THEN "create" ELSE "unmount")
       \/ volumePhase = "initialized" /\ content # "noFile" /\ UNCHANGED volumePhase /\ Goto(r, "check")
    /\ UNCHANGED <<disk, point, volumeFaults>>

CreateVhdx(r) ==
    /\ at[r] = "create" /\ content' = "blank" /\ Goto(r, "unmount")
    /\ UNCHANGED <<volumePhase, data, attached, mounted, point, volumeFaults>>

\* Its result is ignored: it may not have been attached, or not let go.
UnmountVhdx(r) ==
    /\ at[r] = "unmount" /\ Goto(r, "bareNew")
    /\ \/ attached' = FALSE /\ mounted' = FALSE
       \/ UNCHANGED <<attached, mounted>>
    /\ UNCHANGED <<volumePhase, content, data, point, volumeFaults>>

\* wsl --mount refuses a disk that is attached: the run throws.
AttachBare(r) ==
    /\ at[r] \in {"bareNew", "bare"}
    /\ IF attached THEN Goto(r, "idle") /\ UNCHANGED attached
       ELSE attached' = TRUE /\ Goto(r, IF at[r] = "bareNew" THEN "initialize" ELSE "attach")
    /\ UNCHANGED <<volumePhase, content, data, mounted, point, volumeFaults>>

\* check: whether the UUID is there, and whether it is mounted with its marker.
CheckVolume(r) ==
    /\ at[r] = "check"
    /\ Goto(r, IF ~attached \/ content # "ours" THEN "bare" ELSE IF mounted THEN "idle" ELSE "attach")
    /\ UNCHANGED <<volumePhase, disk, point, volumeFaults>>

CommandFails(r) ==
    /\ at[r] # "idle" /\ VolumeFault /\ Goto(r, "idle")
    /\ UNCHANGED <<volumePhase, disk, point>>

\* After mount, or after a run that needed nothing else.
RecordPhase(r) ==
    /\ at[r] = "record" /\ volumePhase' = "initialized" /\ Goto(r, "idle")
    /\ UNCHANGED <<disk, point, volumeFaults>>

-----------------------------------------------------------------------------
(* The helper                                                              *)

\* Mutant: what is pending was never formatted.
InitializeAnew(r) ==
    /\ at[r] = "initialize"
    /\ IF ~attached \/ mounted THEN Goto(r, "idle") /\ UNCHANGED <<content, data>>
       ELSE content' = "ours" /\ data' = FALSE /\ Goto(r, "attach")
    /\ UNCHANGED <<volumePhase, attached, mounted, point, volumeFaults>>

\* Formats a blank disk, and returns for one that has the UUID; never a mounted one.
Initialize(r) ==
    /\ at[r] = "initialize"
    /\ IF ~attached \/ mounted THEN Goto(r, "idle") /\ UNCHANGED <<content, data>>
       ELSE /\ Goto(r, "attach") /\ content' = "ours"
            /\ data' = (content = "ours" /\ data)
    /\ UNCHANGED <<volumePhase, attached, mounted, point, volumeFaults>>

\* Where a run goes once the filesystem is mounted.
AfterMount(r) == IF volumePhase = "pending" THEN "record" ELSE "idle"

\* attach: refuses to cover files.
Attach(r) ==
    /\ at[r] = "attach"
    /\ Goto(r, IF ~attached \/ content # "ours" \/ (~mounted /\ stray) THEN "idle"
               ELSE IF mounted THEN AfterMount(r) ELSE "protect")
    /\ UNCHANGED <<volumePhase, disk, point, volumeFaults>>

\* Mutant: the bare mountpoint stays writable.
ProtectNot(r) ==
    /\ at[r] = "protect" /\ Goto(r, "mount")
    /\ UNCHANGED <<volumePhase, disk, point, volumeFaults>>

\* chattr +i of the bare mountpoint, or of what another run has just mounted there.
Protect(r) ==
    /\ at[r] = "protect" /\ Goto(r, "mount")
    /\ immutable' = (immutable \/ ~mounted)
    /\ UNCHANGED <<volumePhase, disk, stray, claimed, volumeFaults>>

\* mount fails where another run has just mounted it.
MountVolume(r) ==
    /\ at[r] = "mount"
    /\ IF attached /\ ~mounted THEN mounted' = TRUE /\ Goto(r, AfterMount(r))
       ELSE Goto(r, "idle") /\ UNCHANGED mounted
    /\ UNCHANGED <<volumePhase, content, data, attached, point, volumeFaults>>

-----------------------------------------------------------------------------
(* Around it                                                               *)

\* The provisioner gives no claim before it has seen the marker.
Claim ==
    /\ mounted /\ ~claimed /\ claimed' = TRUE
    /\ UNCHANGED <<volumePhase, disk, immutable, stray, at, volumeFaults>>

\* A pod starts: containerd makes a missing hostPath, wherever that is.
PodWrites ==
    /\ claimed
    /\ \/ mounted /\ data' = TRUE /\ UNCHANGED stray
       \/ ~mounted /\ ~immutable /\ stray' = TRUE /\ UNCHANGED data
    /\ UNCHANGED <<volumePhase, content, attached, mounted, immutable, claimed, at, volumeFaults>>

\* WSL, or Windows, restarts: the disk is detached, the runs have failed.
WslRestarts ==
    /\ VolumeFault /\ attached' = FALSE /\ mounted' = FALSE /\ at' = [r \in Runs |-> "idle"]
    /\ UNCHANGED <<volumePhase, content, data, point>>

RunStepOf(r) ==
    \/ StartVolume(r) \/ CreateVhdx(r) \/ UnmountVhdx(r) \/ AttachBare(r) \/ CheckVolume(r)
    \/ RecordPhase(r) \/ Initialize(r) \/ Attach(r) \/ Protect(r) \/ MountVolume(r)

VolumeNext ==
    \/ \E r \in Runs : RunStepOf(r) \/ CommandFails(r)
    \/ Claim \/ PodWrites \/ WslRestarts

VolumeSpec == VolumeInit /\ [][VolumeNext]_volumeVars

\* The task runs every minute, its commands end.
VolumeFair == WF_volumeVars(RunStepOf(Task))

-----------------------------------------------------------------------------
(* "Formatting requires an exact newly attached whole-disk device [...] Normal startup
   [...] never formats" (observability-volume.py:4): what the pods wrote stays, also
   where a run stopped after it had mounted and before Windows recorded so, and what
   Windows calls initialized has the filesystem. *)
VolumeKeepsData ==
    [][/\ data => data'
       /\ volumePhase' = "initialized" => content' = "ours"]_volumeVars

(* An initialized volume comes back after a failed command or a restart, whichever of
   the mount and the pods is first: no pod leaves files where it would be mounted. *)
VolumeComesBack == []<>(volumePhase = "initialized") => []<>mounted
=============================================================================
