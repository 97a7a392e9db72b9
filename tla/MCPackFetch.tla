------------------------------ MODULE MCPackFetch ------------------------------
EXTENDS PackFetch

\* A pack of the index's own server, and one of a vendor whose certificate has
\* expired; both call their algorithm by the same name.
MCVendor == [p \in Packs |-> IF p = "st" THEN "keil" ELSE "gd.com"]
MCCarries == {<<"keil", "st">>, <<"gd.com", "gd">>}
MCFileOf == [p \in Packs |-> <<"flm", "f4">>]
MCMaxVersion == [p \in Packs |-> IF p = "st" THEN 1 ELSE 2]
=============================================================================
