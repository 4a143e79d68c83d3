----------------------------- MODULE SensorSuite -----------------------------
(* The sensor programs that share the wrapper and nothing else: a process runs    *)
(* one of them.  The others' variables stay as they are at the start.              *)
EXTENDS SensingMethods, KernelRelay, BccSensor, DesktopBridge

VARIABLE program    \* "methods", "relay", "bcc" or "bridge"
suiteVars == <<program, methodVars, relayVars, bccVars, bridgeVars>>

SuiteInit ==
    /\ program \in {"methods", "relay", "bcc", "bridge"}
    /\ MethodsInit /\ RelayInit /\ BccInit /\ BridgeInit
    /\ program # "methods" => sensor = "ps" /\ onPath /\ host = {}
    /\ program # "bcc" => \A level \in Levels : prio <= level

SuiteNext ==
    \/ program = "methods" /\ MethodsNext /\ UNCHANGED <<program, relayVars, bccVars, bridgeVars>>
    \/ program = "relay" /\ RelayNext /\ UNCHANGED <<program, methodVars, bccVars, bridgeVars>>
    \/ program = "bcc" /\ BccNext /\ UNCHANGED <<program, methodVars, relayVars, bridgeVars>>
    \/ program = "bridge" /\ BridgeNext /\ UNCHANGED <<program, methodVars, relayVars, bccVars>>

(* Tasks that can run do.  The kernel, a BCC tool and a client need do nothing; lsof -r *)
(* goes on listing, and a child whose pipe was closed exits when it prints again, which *)
(* for tcpdump takes another packet.                                                    *)
SuiteFairness ==
    /\ WF_methodVars(program = "methods" /\ Start) /\ WF_methodVars(program = "methods" /\ Restart)
    /\ \A i \in Slots : WF_methodVars(program = "methods" /\ TaskStep(i))
    /\ WF_relayVars(program = "relay" /\ RelayStep)
    /\ WF_bccVars(program = "bcc" /\ ProducerStep) /\ WF_bccVars(program = "bcc" /\ ConsumerStep)
    /\ \A c \in Clients : WF_bridgeVars(program = "bridge" /\ ServerStep(c))
    /\ WF_bridgeVars(program = "bridge" /\ ForwardStep)

SuiteSpec == SuiteInit /\ [][SuiteNext]_suiteVars /\ SuiteFairness

(* Over threads, locks, cancelled tasks and restarts the desktop bridge and the BCC       *)
(* sensor are channels: what is put is put after everything else and newer than all       *)
(* of its source, nothing of a source comes after its end, and what is passed on is the   *)
(* oldest that was not.                                                                   *)
ImplementsChannel == BridgeChannel!Spec /\ BccChannel!Spec
=============================================================================
