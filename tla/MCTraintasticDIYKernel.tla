----------------------- MODULE MCTraintasticDIYKernel -----------------------
(* Model-checking instances of TraintasticDIYKernel.                       *)
EXTENDS TraintasticDIYKernel

\* Two device addresses, of which only the first is inside
\* [ioAddressMin, ioAddressMax] (IoAddressMin = IoAddressMax = 1).
MCAddr == {1, 2}
\* One address for the heartbeat runs, where time makes the state space.
MCAddrOne == {1}
MCOneTimeout == {1}
MCTwoTimeouts == {1, 2}
=============================================================================
