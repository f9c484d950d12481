------------------------------ MODULE QemuImage ------------------------------
(***************************************************************************)
(* Building and running a VM image (qemu/qemu-standalone.ts).  The build   *)
(* goes through stages in a cache directory that outlives it; a stage is   *)
(* skipped when what it makes is there.  A command of any stage may fail,  *)
(* or the build be killed, and a later build goes on with what it finds.   *)
(* A run boots the cached image on disks of its own.                       *)
(***************************************************************************)
EXTENDS Naturals, FiniteSets

CONSTANTS
    VmRuns,     \* invocations of the run command
    MaxBuilds   \* bound on the builds started

ASSUME ImageAssumption == MaxBuilds \in Nat

VARIABLES
    build,      \* the stage the running build is at, or idle
    builds,
    chroot,     \* absent, partial, partial with a kernel, or installed
    configured, \* journald, storage disks and the dracut module are in the chroot
    initrd,     \* absent, stock, or live (with dmsquash-live)
    marker,     \* .dmsquash-initrd
    image,      \* absent, partial or full; the initrd inside is the one at the time
    vmRun,      \* each run: none, prepared, booted, done or failed
    disks       \* overlay directories

imageVars == <<build, builds, chroot, configured, initrd, marker, image, vmRun, disks>>
runOnly == <<vmRun, disks>>

ImageInit ==
    /\ build = "idle" /\ builds = 0
    /\ chroot = "absent" /\ configured = FALSE /\ initrd = "absent" /\ marker = FALSE
    /\ image = "absent"
    /\ vmRun = [r \in VmRuns |-> "none"]
    /\ disks = {}

Stage(from, to) == build = from /\ build' = to

BuildCommand ==
    /\ builds < MaxBuilds
    /\ Stage("idle", "chroot")
    /\ builds' = builds + 1
    /\ UNCHANGED <<chroot, configured, initrd, marker, image, runOnly>>

\* The directory is made, then filled and the packages installed, among them
\* a kernel with a stock initrd.  An existing directory is taken as it is.
MakeChroot ==
    /\ chroot = "absent"
    /\ Stage("chroot", "install")
    /\ chroot' = "partial"
    /\ UNCHANGED <<builds, configured, initrd, marker, image, runOnly>>

SkipChroot ==
    /\ chroot # "absent"
    /\ Stage("chroot", "configure")
    /\ UNCHANGED <<builds, chroot, configured, initrd, marker, image, runOnly>>

InstallDistro ==
    /\ Stage("install", "configure")
    /\ chroot' = "installed"
    /\ initrd' = "stock"
    /\ UNCHANGED <<builds, configured, marker, image, runOnly>>

\* journald, fstab and the overlay module: always, and idempotent.
Configure ==
    /\ Stage("configure", "initrd")
    /\ configured' = TRUE
    /\ UNCHANGED <<builds, chroot, initrd, marker, image, runOnly>>

\* Mutation: any initrd.img will do.
InitrdIsAny == initrd # "absent"

InitrdIsBuilt == marker

\* dracut needs an installed kernel; the marker is touched after it succeeded.
Dracut ==
    /\ ~InitrdIsBuilt /\ chroot \in {"kernel", "installed"}
    /\ Stage("initrd", "mark")
    /\ initrd' = "live"
    /\ UNCHANGED <<builds, chroot, configured, marker, image, runOnly>>

TouchMarker ==
    /\ Stage("mark", "image")
    /\ marker' = TRUE
    /\ UNCHANGED <<builds, chroot, configured, initrd, image, runOnly>>

SkipInitrd ==
    /\ InitrdIsBuilt
    /\ Stage("initrd", "image")
    /\ UNCHANGED <<builds, chroot, configured, initrd, marker, image, runOnly>>

\* mksquashfs, then the image file is made, formatted and filled.
MakeImage ==
    /\ image = "absent"
    /\ Stage("image", "fill")
    /\ image' = "partial"
    /\ UNCHANGED <<builds, chroot, configured, initrd, marker, runOnly>>

FillImage ==
    /\ Stage("fill", "idle")
    /\ image' = "full"
    /\ UNCHANGED <<builds, chroot, configured, initrd, marker, runOnly>>

SkipImage ==
    /\ image # "absent"
    /\ Stage("image", "idle")
    /\ UNCHANGED <<builds, chroot, configured, initrd, marker, image, runOnly>>

\* A command fails, or the build is killed, perhaps with the kernel installed
\* and not the rest.
BuildFails ==
    /\ build # "idle" /\ build' = "idle"
    /\ \/ UNCHANGED <<chroot, initrd>>
       \/ build = "install" /\ chroot' = "kernel" /\ initrd' = "stock"
    /\ UNCHANGED <<builds, configured, marker, image, runOnly>>

BuildStep ==
    \/ MakeChroot \/ SkipChroot \/ InstallDistro \/ Configure \/ Dracut \/ TouchMarker
    \/ SkipInitrd \/ MakeImage \/ FillImage \/ SkipImage

-----------------------------------------------------------------------------

\* The run command needs an image, and makes disks in a directory of its own.
PrepareRun(r) ==
    /\ vmRun[r] = "none"
    /\ \/ image = "absent" /\ vmRun' = [vmRun EXCEPT ![r] = "failed"] /\ UNCHANGED disks
       \/ image # "absent" /\ vmRun' = [vmRun EXCEPT ![r] = "prepared"] /\ disks' = disks \cup {r}
    /\ UNCHANGED <<build, builds, chroot, configured, initrd, marker, image>>

\* The seed server is up and QEMU boots kernel and initrd from the chroot; if
\* no kernel is found the disks stay.
BootVm(r) ==
    /\ vmRun[r] = "prepared"
    /\ vmRun' = [vmRun EXCEPT ![r] = IF chroot \in {"kernel", "installed"} THEN "booted" ELSE "failed"]
    /\ UNCHANGED <<build, builds, chroot, configured, initrd, marker, image, disks>>

\* QEMU exits: the seed server stops and the disks are removed.
VmExits(r) ==
    /\ vmRun[r] = "booted"
    /\ vmRun' = [vmRun EXCEPT ![r] = "done"]
    /\ disks' = disks \ {r}
    /\ UNCHANGED <<build, builds, chroot, configured, initrd, marker, image>>

ImageNext ==
    \/ BuildCommand \/ BuildStep \/ BuildFails
    \/ \E r \in VmRuns : PrepareRun(r) \/ BootVm(r) \/ VmExits(r)

ImageSpec == ImageInit /\ [][ImageNext]_imageVars

-----------------------------------------------------------------------------

\* However earlier builds failed, an image file exists only when the initrd
\* beside it is the live one: no VM boots the stock initrd that does not know
\* root=live:LABEL=LIVEOS.
ImageBootsLive ==
    /\ image # "absent" => initrd = "live" /\ configured
    /\ \A r \in VmRuns : vmRun[r] = "booted" => initrd = "live"
=============================================================================
