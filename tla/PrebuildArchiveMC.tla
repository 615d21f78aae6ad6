------------------------- MODULE PrebuildArchiveMC --------------------------
(* Two creations, a user's archive and the monitor; a creation's reservation *)
(* lasts one unit of time, an archive's two.                                 *)
EXTENDS PrebuildArchive

CONSTANTS c1, c2, u1, m1

MCCreators == {c1, c2}
MCUsers    == {u1}
MCMonitors == {m1}
=============================================================================
