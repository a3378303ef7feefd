------------------------- MODULE MCMountResolver --------------------------
(***************************************************************************)
(* A small instance of MountResolver for TLC: a bind-mountable source that *)
(* exists or not, the host's /dev (a source whose name is in the ignore    *)
(* table), a non-absolute "proc" source; one directory in the ignore table *)
(* and one that is not, so that ignored, skipped, stacked and failing      *)
(* mounts all occur within three declarations.                             *)
(***************************************************************************)
EXTENDS MountResolver

MCSources == {"proc", "/dev", "/srv"}
MCAbsSources == {"/dev", "/srv"}
MCDirs == {"/proc", "/data"}
MCTypes == {"bind"}
MCRootPath == "/rootfs"

\* No directory is too long for PATH_MAX, or "/data" is.
MCNoLongDirs == {}
MCLongDirs == {"/data"}

\* Every source relative: stat() is never asked, no mount is skipped.
MCNoAbsSources == {}
=============================================================================
