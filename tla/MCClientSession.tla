--------------------------- MODULE MCClientSession ---------------------------
(* Model-checking instances of ClientSession. *)
EXTENDS ClientSession

CONSTANTS o1, o2, t1, u1

MCObjects == {o1}
MCTwoObjects == {o1, o2}
MCTables == {t1}
MCNoTables == {}
MCUnknown == {u1}
MCNoUnknown == {}
MCValues == {0, 1}
\* every object shows a Boolean property, the one type processMessage applies
MCBooleans == [o \in MCObjects |-> "Boolean"]
MCTwoBooleans == [o \in MCTwoObjects |-> "Boolean"]
\* an object whose property is an Integer
MCInteger == [o \in MCObjects |-> "Integer"]
====
