------------------------------- MODULE MCTurns -------------------------------
(* Chat turns and browser sessions, side by side: every behaviour is one of  *)
(* a single component, chosen by its first state.                            *)
EXTENDS TurnSteering, BrowserSessions, TLC

CONSTANTS b1, b2

\* One browser session may launch a Chromium once, the other finds none to launch.
MCLaunches == b1 :> 1 @@ b2 :> 0

VARIABLE component

MCInit == TurnInit /\ BrowserInit /\ component \in {"turn", "browser"}

MCNext ==
    /\ UNCHANGED component
    /\ \/ component = "turn" /\ TurnNext /\ UNCHANGED browserVars
       \/ component = "browser" /\ BrowserNext /\ UNCHANGED turnVars

MCSpec ==
    /\ MCInit /\ [][MCNext]_<<component, turnVars, browserVars>>
    /\ TurnFairness /\ BrowserFairness   \* of a component that was not chosen nothing is enabled
=============================================================================
