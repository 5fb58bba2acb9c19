-------------------------- MODULE HardwareProfiles --------------------------
(***************************************************************************)
(* The ARM platform manifest (platforms.json): which packages and which    *)
(* boot arguments a known machine needs.  The ISO build downloads what the *)
(* manifest asks for (offline_packages); the installer applies the one     *)
(* entry that matches the machine it runs on (select_platform).            *)
(*                                                                         *)
(* A manifest is a sequence of entries [match, media, packages, args]:     *)
(* the identities (vendor and product) it stands for, the media target it  *)
(* has to be installed from, its packages and its boot arguments.          *)
(***************************************************************************)
EXTENDS Naturals, Sequences

\* Vendor and product of a machine whose firmware does not tell them.
NoIdentity == "unidentified"

(***************************************************************************)
(* load_platforms: every entry has an identity, and no identity is claimed *)
(* twice (by two entries; by one entry twice makes no difference here).    *)
(***************************************************************************)
ValidManifest(manifest) ==
  /\ \A i \in DOMAIN manifest : manifest[i].match # {} /\ NoIdentity \notin manifest[i].match
  /\ \A i, j \in DOMAIN manifest : manifest[i].match \cap manifest[j].match # {} => i = j

Matching(manifest, identity) == {i \in DOMAIN manifest : identity \in manifest[i].match}

\* select_platform: in a valid manifest there is at most one to select.
Selected(manifest, identity) ==
  manifest[CHOOSE i \in DOMAIN manifest : identity \in manifest[i].match]

\* Seeded fault: any media will do.
RejectedUnchecked(manifest, identity, media) == ~ ValidManifest(manifest)

\* What detect_platform raises on: a bad manifest, or the wrong media for this machine.
Rejected(manifest, identity, media) ==
  \/ ~ ValidManifest(manifest)
  \/ /\ Matching(manifest, identity) # {}
     /\ Selected(manifest, identity).media # media

\* What the build puts on the medium for the machines it is meant for.
OfflinePackages(manifest, media) ==
  UNION {manifest[i].packages : i \in {k \in DOMAIN manifest : manifest[k].media = media}}

\* What the matched entry asks for; nothing for a machine nobody listed.
ProfilePackages(manifest, identity) ==
  IF Matching(manifest, identity) = {} THEN {} ELSE Selected(manifest, identity).packages

ProfileArgs(manifest, identity) ==
  IF Matching(manifest, identity) = {} THEN {} ELSE Selected(manifest, identity).args
=============================================================================
