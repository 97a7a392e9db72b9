------------------------------ MODULE MCDebugView ------------------------------
EXTENDS DebugView, TLC

Region(first, last, kind, cacheable) ==
  [first |-> first, last |-> last, kind |-> kind, cacheable |-> cacheable]

\* RAM, flash and a peripheral.
MCRegions ==
  {Region(0, 2, "ram", TRUE), Region(3, 3, "flash", TRUE), Region(4, 4, "device", FALSE)}

Idle(rev) ==
  [accesses |-> {}, breaks |-> {}, lists |-> {}, watches |-> {}, rev |-> rev, stores |-> {},
   sleeps |-> FALSE]

\* Memory through the cache over one software breakpoint; a program that
\* sleeps; breakpoints with both revisions of the FPB, outside of all regions
\* too; registers; watchpoints.
MCSessions ==
  {[Idle(1) EXCEPT !.accesses = {<<0, 2>>, <<1, 1>>, <<1, 2>>, <<2, 2>>, <<4, 1>>},
                   !.breaks = {1}, !.stores = {1}],
   [Idle(1) EXCEPT !.accesses = {<<1, 1>>}, !.breaks = {1}, !.stores = {1}, !.sleeps = TRUE],
   [Idle(1) EXCEPT !.accesses = {<<0, 2>>}, !.breaks = {1, 3, 5}, !.stores = {1}],
   [Idle(2) EXCEPT !.breaks = {1, 3, 5}, !.stores = {1}],
   [Idle(2) EXCEPT !.sleeps = TRUE,
      !.lists = {<<"sp">>, <<"msp">>, <<"d0">>, <<"primask">>, <<"basepri", "primask">>, <<"cfbp">>}],
   [Idle(2) EXCEPT
      !.watches = {<<0, "word">>, <<1, "word">>, <<0, "odd">>, <<0, "large">>}]}
DataSymmetry == Permutations(Data)
=============================================================================
