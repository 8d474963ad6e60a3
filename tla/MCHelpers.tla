------------------------------ MODULE MCHelpers -------------------------------
(***************************************************************************)
(* One run for the parts that stand alone: the relays beside the bridges   *)
(* and the operator's tools.  They share no state, so a behaviour follows  *)
(* one of them, and the others stay as they started.                       *)
(***************************************************************************)
EXTENDS Adapter, Arbiter, Profile, SportProbe, UnloadProbe, TorqueProbe, Sender, LiveWatch, MotionReport

CONSTANT PARTS

VARIABLE part

MCSteps == {-2, -1, 2}
MCSticks == {-2, 0}
MCJumps == {-1, 1}
MCBack == {-1}

unloadVars == <<capture, verdict>>
reportVars == <<trial, report>>
helperVars == <<part, adapterVars, arbiterVars, profileVars, probeVars, unloadVars, torqueVars,
                senderVars, watchVars, reportVars>>

\* a part that is not followed starts somewhere
HelpersInit ==
  /\ part \in PARTS
  /\ AdapterInit /\ (part # "adapter" => node = "lidar")
  /\ ArbiterInit /\ (part # "arbiter" => enabled)
  /\ ProfileInit
  /\ part # "profile" => profile = "listen" /\ expected = [armed |-> FALSE, state |-> "IDLE"]
  /\ ProbeInit /\ (part # "probe" => stage = "listen" /\ ~armed)
  /\ IF part = "unload" THEN UnloadInit
     ELSE capture = (CHOOSE c \in Captures : TRUE) /\ UnloadInit
  /\ TorqueInit
  /\ part # "torque" => /\ robot = [up |-> FALSE, reports |-> TRUE, live |-> TRUE]
                        /\ shift = 0 /\ posture = "lying"
  /\ SenderInit /\ (part # "sender" => errand = "walk_03")
  /\ WatchInit /\ (part # "watch" => watch = "thermal")
  /\ IF part = "report" THEN MotionInit
     ELSE trial = (CHOOSE c \in Trials : TRUE) /\ MotionInit

HelpersNext ==
  \/ /\ part = "adapter" /\ AdapterNext
     /\ UNCHANGED <<part, arbiterVars, profileVars, probeVars, unloadVars, torqueVars,
                    senderVars, watchVars, reportVars>>
  \/ /\ part = "arbiter" /\ ArbiterNext
     /\ UNCHANGED <<part, adapterVars, profileVars, probeVars, unloadVars, torqueVars,
                    senderVars, watchVars, reportVars>>
  \/ /\ part = "profile" /\ ProfileNext
     /\ UNCHANGED <<part, adapterVars, arbiterVars, probeVars, unloadVars, torqueVars,
                    senderVars, watchVars, reportVars>>
  \/ /\ part = "probe" /\ ProbeNext
     /\ UNCHANGED <<part, adapterVars, arbiterVars, profileVars, unloadVars,
                    torqueVars, senderVars, watchVars, reportVars>>
  \/ /\ part = "unload" /\ Analyse
     /\ UNCHANGED <<part, adapterVars, arbiterVars, profileVars, probeVars, torqueVars,
                    senderVars, watchVars, reportVars>>
  \/ /\ part = "torque" /\ TorqueNext
     /\ UNCHANGED <<part, adapterVars, arbiterVars, profileVars, probeVars, unloadVars,
                    senderVars, watchVars, reportVars>>
  \/ /\ part = "sender" /\ SenderNext
     /\ UNCHANGED <<part, adapterVars, arbiterVars, profileVars, probeVars, unloadVars,
                    torqueVars, watchVars, reportVars>>
  \/ /\ part = "watch" /\ WatchNext
     /\ UNCHANGED <<part, adapterVars, arbiterVars, profileVars, probeVars, unloadVars,
                    torqueVars, senderVars, reportVars>>
  \/ /\ part = "report" /\ AnalyseRun
     /\ UNCHANGED <<part, adapterVars, arbiterVars, profileVars, probeVars, unloadVars,
                    torqueVars, senderVars, watchVars>>

\* only the arbiter's properties need fairness
HelpersSpec ==
  /\ HelpersInit
  /\ [][HelpersNext]_helperVars
  /\ part = "arbiter" => ArbiterFairness

(* "release stick -> ROS 2 resumes" (cmd_vel_squelch.cb), in the           *)
(* behaviours that follow the arbiter.                                     *)
StickReleaseReturns == part = "arbiter" => ReleaseReturns
=============================================================================
