------------------------------ MODULE MCBrowser ------------------------------
(***************************************************************************)
(* The engine, loading, undo and the pages of pk-admin, which share no     *)
(* state, on small instances: one of those in Moving is chosen in the      *)
(* initial state and moves, the others rest.                               *)
(***************************************************************************)
EXTENDS PkEngine, PkLoading, PkUndo, PkAdmin, TLC

CONSTANT Moving
ASSUME MovingAssumption == Moving \subseteq {"engine", "loading", "undo", "admin"}

VARIABLE part

\* The last two images have the same name.
SameName == <<"n1", "n2", "n2">>

\* The types of all parts.
BrowserTypeOK == EngineTypeOK /\ LoadingTypeOK /\ UndoTypeOK /\ AdminTypeOK

BrowserInit ==
    /\ part \in Moving
    /\ EngineInit /\ LoadingInit /\ UndoInit /\ AdminInit
    /\ part # "undo" => doc = "d1"

BrowserNext ==
    \/ part = "engine" /\ EngineNext /\ UNCHANGED <<part, loadingVars, undoVars, adminVars>>
    \/ part = "loading" /\ LoadingNext /\ UNCHANGED <<part, engineVars, undoVars, adminVars>>
    \/ part = "undo" /\ UndoNext /\ UNCHANGED <<part, engineVars, loadingVars, adminVars>>
    \/ part = "admin" /\ AdminNext /\ UNCHANGED <<part, engineVars, loadingVars, undoVars>>

\* The browser serves its requests for frames and time passes; what a resting part would
\* have to do otherwise is not possible in its initial state.
BrowserSpec ==
    /\ BrowserInit /\ [][BrowserNext]_<<part, engineVars, loadingVars, undoVars, adminVars>>
    /\ WF_engineVars(Frame) /\ WF_engineVars(part = "engine" /\ TimeUp)
    /\ LoadingFairness
    /\ AdminFairness
=============================================================================
