---------------------------- MODULE MCLimineBoot ----------------------------
(***************************************************************************)
(* Model checking of LimineBoot on a handful of machines.                  *)
(***************************************************************************)
EXTENDS LimineBoot

\* Two known laptops, one of which boots only from the medium made for it.
Platforms == <<
  [match |-> {"surface"}, media |-> "snapdragon", packages |-> {"firmware"}, args |-> {"clk_ignore_unused"}],
  [match |-> {"server", "board"}, media |-> "generic", packages |-> {"driver"}, args |-> {}]>>
Ambiguous == <<Platforms[1], [Platforms[1] EXCEPT !.media = "generic", !.packages = {"driver"}]>>

Found(words) == [words |-> words, by |-> 0]
Empty == [n \in Nums |-> NoEntry]
NoOrder == [n \in Nums |-> 0]

X86 == [uefi |-> TRUE, variables |-> TRUE, stuck |-> FALSE, arm |-> FALSE,
        manifest |-> <<>>, identity |-> NoIdentity, media |-> "x86_64",
        entries |-> Empty, order |-> NoOrder]
Arm == [X86 EXCEPT !.arm = TRUE, !.manifest = Platforms, !.media = "snapdragon"]

\* Windows first, Limine from two earlier installations, and a third system
\* whose entry lies between them.
DualBoot == [X86 EXCEPT
  !.entries = [n \in Nums |-> CASE n \in {1, 3} -> Found({"limine"}) [] n = 2 -> Found({}) [] n = 4 -> Found({"windows"})
                                [] OTHER -> NoEntry],
  !.order = [n \in Nums |-> CASE n = 4 -> 1 [] n = 1 -> 2 [] n = 2 -> 3 [] n = 3 -> 4 [] OTHER -> 0]]

\* A boot list with one room left, an entry that is in no order, and a number in
\* the order that has no entry; Limine is what starts Windows there.
Crowded == [X86 EXCEPT
  !.entries = [n \in Nums |-> CASE n \in {1, 2, 5} -> Found({}) [] n = 3 -> Found({"limine", "windows"})
                                [] OTHER -> NoEntry],
  !.order = [n \in Nums |-> CASE n = 4 -> 1 [] n = 2 -> 2 [] n = 3 -> 3 [] OTHER -> 0]]

SomeMachines == {
  DualBoot, [DualBoot EXCEPT !.stuck = TRUE], Crowded,
  [X86 EXCEPT !.uefi = FALSE, !.variables = FALSE],
  [Arm EXCEPT !.identity = "surface"],
  [Arm EXCEPT !.identity = "surface", !.variables = FALSE],
  [Arm EXCEPT !.identity = "surface", !.media = "generic"],
  [Arm EXCEPT !.identity = "surface", !.manifest = Ambiguous, !.media = "generic"],
  [Arm EXCEPT !.identity = "board"],
  [Arm EXCEPT !.variables = FALSE]}

Laptop == {[Arm EXCEPT !.identity = "surface", !.variables = FALSE]}

Wanted(flags) ==
  [protected : BOOLEAN, encrypted : BOOLEAN, flag : flags, bootloader : {"limine"}, uuid : {"text"}]

SomeInstalls == Wanted(BOOLEAN) \cup {
  [protected |-> FALSE, encrypted |-> FALSE, flag |-> FALSE, bootloader |-> "none", uuid |-> "text"],
  [protected |-> FALSE, encrypted |-> FALSE, flag |-> FALSE, bootloader |-> "other", uuid |-> "text"],
  [protected |-> TRUE, encrypted |-> TRUE, flag |-> TRUE, bootloader |-> "limine", uuid |-> "mangled"]}
=============================================================================
