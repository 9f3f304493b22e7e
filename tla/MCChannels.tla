------------------------------ MODULE MCChannels ----------------------------
(***************************************************************************)
(* A VM with its channels, or two with a connection between them: which is *)
(* chosen at the start.                                                    *)
(***************************************************************************)
EXTENDS Channel, Frames

VARIABLE over       \* what the messages go over

MCInit == over \in {"buffer", "connection"} /\ Init /\ FramesInit

MCNext ==
    /\ UNCHANGED over
    /\ \/ over = "buffer" /\ Next /\ UNCHANGED frameVars
       \/ over = "connection" /\ FramesNext /\ UNCHANGED vars

mcVars == <<over, vars, frameVars>>

\* The receiver of a connection goes on inside recv_value.
MCInside == over = "connection" /\ RecvInside /\ UNCHANGED <<over, vars>>

MCFairSpec == MCInit /\ [][MCNext]_mcVars /\ WF_mcVars(MCInside)

\* The state of the channels and of the connection has its types, and a
\* bounded channel never holds more than its bound.
ChannelsTypeOK == TypeOK /\ FramesTypeOK
=============================================================================
