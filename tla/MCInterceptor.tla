--------------------------- MODULE MCInterceptor ---------------------------
(* Instances of Interceptor for TLC. *)
EXTENDS Interceptor

Plain == [authorized |-> TRUE, arp |-> {}, restoreOnStop |-> TRUE, ipForward |-> TRUE,
          ics |-> FALSE, dropped |-> {}, joins |-> TRUE]

\* Capture with positioning, with sharing, with a filter, and a start that is refused.
MCSettings ==
    {[Plain EXCEPT !.arp = Targets, !.joins = FALSE],
     [Plain EXCEPT !.ics = TRUE, !.dropped = {"other"}],
     [Plain EXCEPT !.arp = Targets, !.authorized = FALSE]}

\* The more the machine can do, the fewer frames.
MCMaxFrames == [c \in MCSettings |-> IF c.arp = {} THEN 2 ELSE 1]

\* Routing on, and never configured with a connection shared.
MCMachines ==
    {[routing |-> "1", shared |-> {}], [routing |-> "", shared |-> {"public", "private"}]}

\* A machine that shares connections already, and a run that is to share them.
SharingSettings == {[Plain EXCEPT !.ics = TRUE]}
SharingMachines == {[routing |-> "", shared |-> {"public", "private"}]}
NoFrames == [c \in SharingSettings |-> 0]
=============================================================================
