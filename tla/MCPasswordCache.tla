-------------------------- MODULE MCPasswordCache --------------------------
(* Bounds for TLC: two handler threads, which overlap each other and any number *)
(* of untimed stores, and deadlines at, before and after the clock's reach.      *)
EXTENDS PasswordCache
CONSTANTS p1, empty, torn, h1, h2, none
MCStorable == {p1}
MCHandlers == {h1, h2}
MCDurations == {0, 1, 2}
MCStoreUntil == 2
MCClockLimit == 4
=============================================================================
