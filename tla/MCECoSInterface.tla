--------------------------- MODULE MCECoSInterface ---------------------------
EXTENDS ECoSInterface, TLC

\* Channel numbers and address ranges of ECoS::Kernel (kernel.hpp is not in
\* the repository): two input and two output channels numbered 1 and 2, with
\* ranges small enough for TLC and different per channel.
MCInputChannels == {1, 2}
MCOutputChannels == {1, 2}
MCInputRange == (1 :> <<1, 2>>) @@ (2 :> <<1, 1>>)
MCOutputRange == (1 :> <<1, 1>>) @@ (2 :> <<2, 2>>)
MCAddresses == {1, 2}
\* Locomotive protocol names, a station with one DCC locomotive and one
\* 16-port s88 module, and two state files: none, and one written by hand
\* with a locomotive at address 0, one of id 65536 (0 as a uint16_t), an
\* s88 module of 264 ports (8 as a uint8_t), one with id 0 and one after it.
MCLocomotiveProtocols == {"DCC28", "MM14"}
MCStationLayout == [locomotives |-> <<[id |-> 1001, protocol |-> "DCC28", address |-> 3]>>,
                    s88 |-> <<[id |-> 100, ports |-> 16]>>]
MCStateFiles ==
    { [locomotives |-> <<>>, s88 |-> <<>>],
      [locomotives |-> <<[id |-> 1002, protocol |-> "MM14", address |-> 0],
                         [id |-> 65536, protocol |-> "MM14", address |-> 3]>>,
       s88 |-> <<[id |-> 101, ports |-> 264], [id |-> 0, ports |-> 8],
                 [id |-> 102, ports |-> 8]>>] }
=============================================================================
