---------------------------- MODULE PacmanHooks ----------------------------
(***************************************************************************)
(* The file protocol behind _mask_mkinitcpio_pacman_hooks and              *)
(* _unmask_mkinitcpio_pacman_hooks: one hook name in a pacman hook         *)
(* directory is a pair of directory entries, the hook itself and its       *)
(* ".omarchy-backup".  Masking renames the hook aside and links the name   *)
(* to /dev/null; unmasking removes the link and renames the backup back.   *)
(*                                                                         *)
(* Neither is atomic: each is up to three file operations, and an          *)
(* exception, an interrupt or a kill can stop it after any of them.  The   *)
(* operators below give, for one name, the entry an undisturbed run leaves *)
(* and the set of entries a disturbed run may leave.                       *)
(***************************************************************************)
EXTENDS Naturals

\* What a directory entry holds: nothing, a hook's own file, or the mask.
Entry == {"absent", "real", "devnull"}

\* Only a hook's own file is ever renamed to the backup name.
HookFile == [path : Entry, backup : {"absent", "real"}]

NoHook == [path |-> "absent", backup |-> "absent"]
InstalledHook == [path |-> "real", backup |-> "absent"]

\* _is_devnull_symlink: pacman reads the mask and runs no hook of this name.
IsMasked(h) == h.path = "devnull"

\* The hook's own file is still on disk under one of its two names.
HookKept(h) == h.path = "real" \/ h.backup = "real"

\* The hook is where pacman looks for it and nothing is left of the mask.
HookRestored(h) == h = InstalledHook

(***************************************************************************)
(* _mask: the body of the loop for one name.  A name already masked is     *)
(* left alone; a hook that exists replaces an older backup first.          *)
(***************************************************************************)
\* Seeded fault: the link replaces the hook, which is not renamed first.
MaskedInPlace(h) == [h EXCEPT !.path = "devnull"]

\* Seeded fault: a name already masked is renamed aside like any other, so the
\* old backup is unlinked and the mask itself becomes the backup.
MaskedTwice(h) ==
  CASE h.path = "devnull" -> NoHook
    [] h.path = "absent"  -> [h EXCEPT !.path = "devnull"]
    [] h.path = "real"    -> [path |-> "devnull", backup |-> "real"]

Masked(h) ==
  CASE h.path = "devnull" -> h
    [] h.path = "absent"  -> [h EXCEPT !.path = "devnull"]
    [] h.path = "real"    -> [path |-> "devnull", backup |-> "real"]

\* Entries after the unlink of an old backup, and after the rename.
MaskedPartly(h) ==
  {h, Masked(h)} \cup
  (IF h.path = "real"
   THEN {[h EXCEPT !.backup = "absent"], [path |-> "absent", backup |-> "real"]}
   ELSE {})

(***************************************************************************)
(* _unmask: the body of the loop for one name.                             *)
(***************************************************************************)
Unlinked(h) == IF IsMasked(h) THEN [h EXCEPT !.path = "absent"] ELSE h

Unmasked(h) == IF h.backup = "real" THEN InstalledHook ELSE Unlinked(h)

UnmaskedPartly(h) == {h, Unlinked(h), Unmasked(h)}

(***************************************************************************)
(* The loop over a tuple of names: the names before the one in progress    *)
(* are done, the ones after it untouched.                                  *)
(***************************************************************************)
AllMasked(hs) == [i \in DOMAIN hs |-> Masked(hs[i])]

\* Seeded fault: the masks are removed but no backup is renamed back.
AllUnlinked(hs) == [i \in DOMAIN hs |-> Unlinked(hs[i])]

AllUnmasked(hs) == [i \in DOMAIN hs |-> Unmasked(hs[i])]

LoopStoppedAt(hs, done, k, h) ==
  [i \in DOMAIN hs |-> IF i < k THEN done[i] ELSE IF i = k THEN h ELSE hs[i]]

AllMaskedPartly(hs) ==
  {hs} \cup UNION {{LoopStoppedAt(hs, AllMasked(hs), k, h) : h \in MaskedPartly(hs[k])} : k \in DOMAIN hs}

AllUnmaskedPartly(hs) ==
  {hs} \cup UNION {{LoopStoppedAt(hs, AllUnmasked(hs), k, h) : h \in UnmaskedPartly(hs[k])} : k \in DOMAIN hs}

\* Every iteration of _unmask swallows its own OSError and goes on, so each
\* name may be left in any of its states independently of the others.
AllUnmaskedBestEffort(hs) ==
  {f \in [DOMAIN hs -> HookFile] : \A i \in DOMAIN hs : f[i] \in UnmaskedPartly(hs[i])}
=============================================================================
