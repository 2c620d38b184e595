------------------------------- MODULE MCDeep -------------------------------
(* The deep research side for TLC: caps, tree, agents, the tree's file,    *)
(* pre-screen, report stream, sidecar clients and clustering. They share   *)
(* no state here, so a behaviour exercises one of them, "focus", and the   *)
(* rest keep one initial state: their product would say no more.           *)
EXTENDS MCCostGuard, DeepTree, AgentPipeline, TreeFile, HaikuScreen, ReportStream,
        SidecarClients, SynthCluster

VARIABLE focus

(* A bound: only evaluations of r1 and r2 fail or lose their answer.       *)
FewLost == reply'[r3] # "error" /\ reply'[r4] # "error"

MCRetrySettings == {-1, 0, 2}
MCReports == {<<>>, << <<{1}, {9}>>, <<{1, 2}>> >>, << <<>>, <<{2, 9}, {}, {1}>> >>}
MCRankings == {[i \in 1..NumDocs |-> i], [i \in 1..NumDocs |-> IF i = 2 THEN 2 ELSE 1]}

deepVars == <<focus, vars, treeVars, agentVars, treeFileVars, screenVars, reportVars,
              sidecarVars, clusterVars>>

DeepInit ==
    /\ focus \in {"caps", "tree", "agents", "file", "screen", "report", "sidecar", "cluster"}
    /\ Init /\ TreeInit /\ TreeFileInit /\ ScreenInit /\ SidecarInit
    /\ AgentInit /\ (focus # "agents" => maxRetries = 0 /\ checked)
    /\ ReportInit /\ (focus # "report" => ask = [mode |-> "other", sse |-> FALSE] /\ report = <<>>)
    /\ ClusterInit /\ (focus # "cluster" =>
                          mode = "off" /\ near = {} /\ ranking = [i \in 1..NumDocs |-> i])

DeepNext == UNCHANGED focus /\
    (\/ /\ focus = "caps" /\ Next /\ FewLost
        /\ UNCHANGED <<treeVars, agentVars, treeFileVars, screenVars, reportVars, sidecarVars, clusterVars>>
     \/ /\ focus = "tree" /\ TreeNext
        /\ UNCHANGED <<vars, agentVars, treeFileVars, screenVars, reportVars, sidecarVars, clusterVars>>
     \/ /\ focus = "agents" /\ AgentNext
        /\ UNCHANGED <<vars, treeVars, treeFileVars, screenVars, reportVars, sidecarVars, clusterVars>>
     \/ /\ focus = "file" /\ TreeFileNext
        /\ UNCHANGED <<vars, treeVars, agentVars, screenVars, reportVars, sidecarVars, clusterVars>>
     \/ /\ focus = "screen" /\ ScreenNext
        /\ UNCHANGED <<vars, treeVars, agentVars, treeFileVars, reportVars, sidecarVars, clusterVars>>
     \/ /\ focus = "report" /\ ReportNext
        /\ UNCHANGED <<vars, treeVars, agentVars, treeFileVars, screenVars, sidecarVars, clusterVars>>
     \/ /\ focus = "sidecar" /\ SidecarNext
        /\ UNCHANGED <<vars, treeVars, agentVars, treeFileVars, screenVars, reportVars, clusterVars>>
     \/ /\ focus = "cluster" /\ ClusterNext
        /\ UNCHANGED <<vars, treeVars, agentVars, treeFileVars, screenVars, reportVars, sidecarVars>>)

(* TreeFairness, for the behaviours that run the tree, and the clock for   *)
(* those that run the caps.                                                *)
otherVars == <<focus, vars, agentVars, treeFileVars, screenVars, reportVars, sidecarVars, clusterVars>>
DeepFairness ==
    /\ WF_vars(focus = "caps" /\ Tick /\ UNCHANGED <<focus, treeVars, agentVars, treeFileVars,
                                                     screenVars, reportVars, sidecarVars, clusterVars>>)
    /\ WF_treeVars(focus = "tree" /\ DecomposeAny /\ UNCHANGED otherVars)
    /\ WF_treeVars(focus = "tree" /\ LaunchLevel /\ UNCHANGED otherVars)
    /\ WF_treeVars(focus = "tree" /\ JoinLevel /\ UNCHANGED otherVars)
    /\ \A n \in Nodes : WF_treeVars(focus = "tree" /\ n \in children /\ Expand(n) /\ UNCHANGED otherVars)

DeepSpec == DeepInit /\ [][DeepNext]_deepVars /\ DeepFairness

-----------------------------------------------------------------------------
(* The type invariants of the parts.                                       *)
DeepTypesOK ==
    /\ TypeOK /\ TreeTypeOK /\ AgentTypeOK /\ TreeFileTypeOK /\ ScreenTypeOK
    /\ ReportTypeOK /\ SidecarTypeOK /\ ClusterTypeOK

(* ExpandTree returns (tree.go), and a ban of the cost guard ends, however *)
(* insistently the banned callers keep trying (cap_check.lua).             *)
NobodyWaitsForEver == (focus = "tree" => Returns) /\ BanEnds

(* What a request leaves behind is whole: the draft the caller gets is the *)
(* one that was accepted (orchestrator.go), and a file that flushes wrote  *)
(* one after the other can be read again after any crash (persistence.go). *)
DraftKept == DraftAccepted /\ TreeReadableSerial

(* The answer side tells its caller the truth: a stream accounts for every *)
(* section and sentence (longform.go), a sidecar's client for the attempt  *)
(* that decided its error (client.go), and clustering neither loses nor    *)
(* repeats a document (cluster.go).                                        *)
SynthesisSound == StreamAccounted /\ SidecarTruthful /\ ClustersSound
=============================================================================
