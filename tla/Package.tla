------------------------------ MODULE Package ------------------------------
(***************************************************************************)
(* package-linux.py, package-desktop.py and desktop-launch.py on top of    *)
(* HostBuild: a built LAB image is put into a directory and an archive     *)
(* with a manifest, unpacked somewhere else, and launched there.           *)
(*                                                                         *)
(* A packager is a command like any other: it starts when no other runs    *)
(* and may fail or be interrupted at any of its steps.  Of HostBuild it    *)
(* reads the ISO, the kernel and the versions, and changes nothing; what   *)
(* happens to a package afterwards reads and changes nothing there.  So    *)
(* the other commands go on once the user is done with the package.  A     *)
(* digest is modelled by the image it was computed from.                   *)
(***************************************************************************)
EXTENDS HostBuild

VARIABLES
  out,        \* the output directory: MiniLinux-LAB and the archive
  packing,    \* the next step of the packager that runs, "none" if none does
  copy,       \* an unpacked package, on the reader's machine
  launched    \* what its launcher has started

packageVars == <<out, packing, copy, launched>>
allVars == <<vars, packageVars>>

NoManifest == [source |-> 0, iso |-> NoImage]
\* held: build/kernel.elf when the packager started, for the properties.
NoPackage == [platform |-> "none", image |-> NoImage, manifest |-> NoManifest,
              archive |-> "absent", held |-> NoKernel]
NoCopy == [platform |-> "none", image |-> NoImage, manifest |-> NoManifest, from |-> NoPackage]
NoLaunch == [running |-> FALSE, image |-> NoImage, of |-> NoCopy]

\* --iso of the documented command.
given_iso == iso["project"][LAB]

-----------------------------------------------------------------------------
(* The packagers.                                                          *)

\* Mutant: the kernel on the ISO is not compared with build/kernel.elf.
SameKernelSkipped == TRUE

\* image.open raises on what is not a finished ISO.
SameKernel == given_iso.whole /\ given_iso.kernel = elf["project"]

Started(platform) ==
  /\ out' = [NoPackage EXCEPT !.platform = platform, !.held = elf["project"]]
  /\ packing' = "image"
  /\ UNCHANGED <<vars, copy, launched>>

\* git status is clean, the output is fresh, and only the Linux packager
\* looks into the ISO.  source is read here, the manifest is written later.
package_linux   == pc = 0 /\ tree = head /\ out = NoPackage /\ SameKernel /\ Started("linux")
package_desktop == pc = 0 /\ out = NoPackage /\ tree = head /\ Started("windows")

package_image ==
  /\ packing = "image"
  /\ out' = [out EXCEPT !.image = given_iso]
  /\ packing' = "manifest"
  /\ UNCHANGED <<vars, copy, launched>>

\* The digest is that of --iso, not of the copy.
package_manifest ==
  /\ packing = "manifest"
  /\ out' = [out EXCEPT !.manifest = [source |-> head, iso |-> given_iso]]
  /\ packing' = "archive"
  /\ UNCHANGED <<vars, copy, launched>>

package_archive ==
  /\ packing = "archive"
  /\ out' = [out EXCEPT !.archive = "whole"]
  /\ packing' = "none"
  /\ UNCHANGED <<vars, copy, launched>>

\* A copy fails or Ctrl+C: what is there stays, the next try is refused.
package_raises ==
  /\ packing # "none"
  /\ out' = IF packing = "archive" THEN [out EXCEPT !.archive = "torn"] ELSE out
  /\ packing' = "none"
  /\ UNCHANGED <<vars, copy, launched>>

\* The user is done with a package and names another output directory.
fresh_output ==
  /\ packing = "none" /\ out # NoPackage /\ ~launched.running
  /\ out' = NoPackage /\ copy' = NoCopy
  /\ UNCHANGED <<vars, packing, launched>>

-----------------------------------------------------------------------------
(* The reader's machine.                                                   *)

\* The directory the packager made may be started as well as the archive;
\* of an archive that broke off anything may be missing.
unpack ==
  /\ packing = "none" /\ out # NoPackage /\ copy = NoCopy
  /\ \E image \in {out.image} \cup (IF out.archive = "torn" THEN {NoImage} ELSE {}),
        manifest \in {out.manifest} \cup (IF out.archive = "torn" THEN {NoManifest} ELSE {}) :
       copy' = [platform |-> out.platform, image |-> image, manifest |-> manifest,
                from |-> [out EXCEPT !.archive = "absent"]]
  /\ UNCHANGED <<vars, out, packing, launched>>

\* The unpacked image is damaged afterwards.
damage ==
  /\ copy # NoCopy /\ ~launched.running
  /\ copy' = [copy EXCEPT !.image = NoImage]
  /\ UNCHANGED <<vars, out, packing, launched>>

\* Mutant: the launcher trusts the unpacked image.
VerifiedNot(c) == c.manifest # NoManifest

\* The image has the digest that the manifest gives it.
Verified(c) == c.manifest # NoManifest /\ c.image = c.manifest.iso

\* check_qemu, create_server and restart may raise: then nothing runs.
Starts ==
  /\ ~launched.running
  /\ launched' = [running |-> TRUE, image |-> copy.image, of |-> copy]
  /\ UNCHANGED <<vars, out, packing, copy>>

\* Start.sh runs desktop-launch.py, which looks at the image itself.
launch_linux == copy.platform = "linux" /\ Verified(copy) /\ Starts

\* Start.cmd runs prepare-desktop.ps1 first, and that looks at the image.
launch_desktop == copy.platform = "windows" /\ Verified(copy) /\ Starts

\* Ctrl+C, or an error: server_close and lab.close.
launch_ends ==
  /\ launched.running
  /\ launched' = NoLaunch
  /\ UNCHANGED <<vars, out, packing, copy>>

PackageInit ==
  Init /\ out = NoPackage /\ packing = "none" /\ copy = NoCopy /\ launched = NoLaunch

PackageNext ==
  \/ out = NoPackage /\ Next /\ UNCHANGED packageVars
  \/ package_linux \/ package_desktop
  \/ package_image \/ package_manifest \/ package_archive \/ package_raises
  \/ fresh_output \/ unpack \/ damage \/ launch_linux \/ launch_desktop \/ launch_ends

PackageSpec == PackageInit /\ [][PackageNext]_allVars

-----------------------------------------------------------------------------
\* A Linux package that gets as far as starting a guest, whatever was
\* interrupted, damaged or built before, boots a finished LAB image: the one
\* its packager saw, with the unpatched kernel build/ held at that moment.
LaunchBootsPackaged ==
  launched.running /\ launched.of.platform = "linux" =>
    /\ launched.image.whole
    /\ launched.image.kernel = launched.of.from.held
    /\ Right(launched.image.kernel, Plain(LAB, Memory0))

\* "Commit changes before packaging so the manifest names the actual
\* source": the kernel in a finished Windows package was built from the
\* source its manifest names.
ManifestNamesSource ==
  out.platform = "windows" /\ out.archive = "whole" /\ out.image.kernel.whole =>
    out.image.kernel.sources.version = out.manifest.source
============================================================================
