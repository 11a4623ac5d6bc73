-------------------------- MODULE MCZ21ClientKernel --------------------------
(* Model-checking instances of Z21ClientKernel.                            *)
EXTENDS Z21ClientKernel

\* No decoders: the runs about track power and emergency stop.
MCNoModes == {}
MCNoFunctions == {}
\* Decoders in the 14, 126 and 128 step modes, driven at stop, the lowest
\* steps and the top step of each mode.
MCModes == {14, 126, 128}
MCSteps == {0, 1, 2, 14, 126}
\* Decoders in the 28 step mode.
MCModes28 == {28}
MCSteps28 == {0, 1, 2, 28}
\* Function numbers on both sides of functionNumberMax (28); the decoder
\* has F0 and F29 but not F28.
MCFunctions == {0, 28, 29}
MCDecoderFunctions == {0, 29}
MCSerials == {1}
=============================================================================
