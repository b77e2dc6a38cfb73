--------------------------- MODULE MCLaunchWatch ---------------------------
(***************************************************************************)
(* Small instances of LaunchWatch for TLC.                                 *)
(***************************************************************************)
EXTENDS LaunchWatch

CONSTANTS o1, o2, ticker

\* A launch in each of two blocks, both of one ticker.
TwoBlocks == <<1, 2>>
OneTicker == [l \in 1..2 |-> ticker]

\* One holder with a string rule for the first launch and "shared 2".
OneOwner        == <<o1, o1>>
StringAndShared == <<0, 2>>
TheFirst         == {<<1, 1>>}

\* Two holders, one of whom stays signed in, with a string rule each for the first launch.  With MaxLaunches = 1
\* the block after it is overfull: the range of both blocks is cut to the first, and then the watcher stands.
OneThenTwo == <<1, 2, 2>>
TwoOwners  == <<o1, o2>>
TwoStrings == <<0, 0>>
TheLaunch  == {<<1, 1>>, <<2, 1>>}
OneHolder  == {o1}

\* Three blocks with a launch each, and a rule for the second: the range can be cut before it.
ThreeBlocks == <<1, 2, 3>>
Alike       == [l \in 1..3 |-> ticker]
OneRule     == <<o1>>
OneString   == <<0>>
TheSecond   == {<<1, 2>>}
=============================================================================
