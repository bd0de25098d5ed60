------------------------------ MODULE MCTools --------------------------------
(***************************************************************************)
(* The programs around the gateway, one scene each: the initializer, the   *)
(* commands, the buyers, the scout, two pages, the subscription scripts    *)
(* and the pilot's tools.  They share no variable but the two pages'       *)
(* wallet, and one run explores them all.                                  *)
(***************************************************************************)
EXTENDS Scaffold, Commands, Buyer, McpScout, Dashboard, AllowancePanel, Subscriptions,
        PilotEngagement, BetaLedger, TLC

CONSTANTS X, Y      \* the pairs that most components take their values from

VARIABLE scene

Tools == Permutations(X) \cup Permutations(Y)

-----------------------------------------------------------------------------
(* What the commands may meet: any two entries in an answer that is right  *)
(* otherwise, or one right entry in any answer or at any place; and, for   *)
(* the doctor, surroundings with two faults at most, where only an answer  *)
(* with a single entry matters.                                            *)

RightEntry == [formed |-> TRUE, exact |-> TRUE, price |-> 1, fits |-> "policy"]

Answer402(accepts) ==
    [at |-> "https", paywalled |-> TRUE, header |-> TRUE, version |-> TRUE,
     same |-> TRUE, accepts |-> accepts]

OneEntry == {Answer402(<<[RightEntry EXCEPT !.fits = f]>>) : f \in {"policy", "devnet"}}

Placed == {[Answer402(<<RightEntry>>) EXCEPT !.at = p] : p \in Places}

AnyEndpoint ==
    {Answer402(s) : s \in UNION {[1 .. n -> Entries] : n \in 0 .. 2}}
    \cup {e \in EndpointOf({<<RightEntry>>}) : e.at = "https"}
    \cup OneEntry \cup Placed

Ready ==
    [node |-> TRUE, dependencies |-> TRUE, env |-> TRUE, recipient |-> "address",
     durability |-> "postgres", database |-> "up", rpc |-> "devnet",
     tokenAccount |-> TRUE, payer |-> "funded", facilitator |-> TRUE, url |-> TRUE, localhost |-> TRUE,
     result |-> "settled", replayed |-> TRUE]

OneFault ==
    {[Ready EXCEPT ![f] = FALSE] :
        f \in {"node", "dependencies", "env", "tokenAccount", "facilitator", "url",
              "localhost", "replayed"}}
    \cup {[Ready EXCEPT !.recipient = v] : v \in {"malformed", "none"}}
    \cup {[Ready EXCEPT !.durability = v] : v \in {"memory", "other"}}
    \cup {[Ready EXCEPT !.database = v] : v \in {"down", "unset"}}
    \cup {[Ready EXCEPT !.rpc = v] : v \in {"down", "other"}}
    \cup {[Ready EXCEPT !.payer = v] : v \in {"empty", "none"}}
    \cup {[Ready EXCEPT !.result = v] : v \in {"conflict", "none"}}

AnySurroundings ==
    {[f \in DOMAIN Ready |-> IF s[f] # Ready[f] THEN s[f] ELSE t[f]] :
        s \in OneFault \cup {Ready}, t \in OneFault \cup {Ready}}

\* a first 402 is quick or late, helped or not; an engagement may change hands
BetaRecords ==
    LET R(id, e, external, milestone, d, consented) ==
            [id |-> id, engagement |-> e, external |-> external, milestone |-> milestone,
             passed |-> TRUE, helped |-> 0, duration |-> d, consented |-> consented]
    IN {R(1, 1, TRUE, "initializer_started", 0, TRUE),
        R(2, 1, TRUE, "first_402", 1, TRUE),
        R(2, 1, TRUE, "first_402", 9, TRUE),
        R(3, 1, TRUE, "settlement_finalized", 0, TRUE),
        R(4, 1, FALSE, "first_402", 1, TRUE),
        R(5, 2, FALSE, "initializer_started", 0, FALSE),
        [R(6, 1, TRUE, "settlement_finalized", 0, TRUE) EXCEPT !.helped = 1]}

-----------------------------------------------------------------------------

Scenes ==
    {"scaffold", "commands", "buyer", "scout", "dashboard", "panel", "subscriptions",
     "pilot", "beta"}

ToolsInit ==
    /\ scene \in Scenes
    /\ ScaffoldInit /\ BuyerInit /\ ScoutInit /\ DashboardInit /\ PanelInit
    /\ SubscriptionsInit /\ PilotInit /\ BetaInit
    /\ IF scene = "commands"
         THEN \/ surroundings = Ready
              \/ endpoint \in OneEntry
              \/ endpoint \in Placed /\ surroundings = [Ready EXCEPT !.localhost = FALSE]
         ELSE surroundings = Ready /\ endpoint = Answer402(<<RightEntry>>)
    /\ CommandsInit

toolsVars ==
    <<scene, scaffoldVars, commandsVars, buyerVars, scoutVars, dashboardVars, panelVars,
      subscriptionsVars, pilotVars, betaVars>>

Still(name, names, variables) == IF name \in names THEN TRUE ELSE UNCHANGED variables

Others(name) ==
    /\ scene = name /\ UNCHANGED scene
    /\ Still(name, {"scaffold"}, scaffoldVars)
    /\ Still(name, {"commands"}, commandsVars)
    /\ Still(name, {"buyer"}, buyerVars)
    /\ Still(name, {"scout"}, scoutVars)
    /\ Still(name, {"dashboard", "panel"}, walletPageVars)
    /\ Still(name, {"dashboard"}, ownDashboardVars)
    /\ Still(name, {"panel"}, ownPanelVars)
    /\ Still(name, {"subscriptions"}, subscriptionsVars)
    /\ Still(name, {"pilot"}, pilotVars)
    /\ Still(name, {"beta"}, betaVars)

ToolsNext ==
    \/ scene = "scaffold" /\ ScaffoldNext /\ Others("scaffold")
    \/ scene = "commands" /\ CommandsNext /\ Others("commands")
    \/ scene = "buyer" /\ BuyerNext /\ Others("buyer")
    \/ scene = "scout" /\ ScoutNext /\ Others("scout")
    \/ scene = "dashboard" /\ DashboardNext /\ Others("dashboard")
    \/ scene = "panel" /\ PanelNext /\ Others("panel")
    \/ scene = "subscriptions" /\ SubscriptionsNext /\ Others("subscriptions")
    \/ scene = "pilot" /\ PilotNext /\ Others("pilot")
    \/ scene = "beta" /\ BetaNext /\ Others("beta")

ToolsSpec == ToolsInit /\ [][ToolsNext]_toolsVars

=============================================================================
