------------------------------- MODULE MCLifecycle -------------------------------
(***************************************************************************)
(* Instance of the configuration provider and of the process for TLC.  They *)
(* meet in what Config.Get returns, which the process takes as given: each  *)
(* behaviour is about one of them, in the small, with all that happens to   *)
(* it meanwhile (provider, process), or undisturbed, with everything that   *)
(* may be in a file or in a request (rules, gate).                          *)
(***************************************************************************)
EXTENDS ConfigProvider, Process, Samples

VARIABLE focus

vars == <<focus, configVars, procVars>>

MCRevisions == {Edited[n] : n \in DOMAIN Edited}

-----------------------------------------------------------------------------
(* The rules: any document of a grid is loaded once.                        *)

\* Every patch of the file over the built-in rule of a request type, under every
\* override of the rule and of the defaults by a tenant.
Patches == {0, 2} \X {0, 1} \X {-1, 0, 1, 2} \X BOOLEAN \X {"", "strong"}
Patch(p) == Rule(p[1], p[2], p[3], p[4], p[5])
Rules == {p \in Patches : p[2] = 0 /\ (p[3] > 0 \/ ~p[4])}

GridDocument(type, p, q, ceil) ==
  [Plain EXCEPT !.table = type :> Patch(p),
                !.tenants = "acme" :> [table |-> type :> Patch(q),
                                       defaults |-> [ZeroDefaults EXCEPT !.maxStale = ceil,
                                                                         !.onUnknown = "anything"]],
                !.defaults.maxStale = 0]

Grid == {GridDocument(type, p, q, ceil) : type \in DOMAIN SampleBuiltin, p \in Rules,
                                                   q \in Patches, ceil \in {0, 1}}
                 \cup {Faulty[n] : n \in DOMAIN Faulty}

-----------------------------------------------------------------------------
(* The gate: one of a grid of requests, while the process runs undisturbed. *)

\* Who asks for what, and how; and everything that may be wrong with a request.
Askers == {<<Token(t, rs), h>> : t \in {"acme", "other"}, h \in {"", "acme"},
                                  rs \in {{"viewer"}, {"auditor", "unheard"}, {}}}
Asked == {[Simple EXCEPT !.route = r, !.audit = a, !.token = w[1], !.header = w[2]] :
            r \in {"status", "execution"}, a \in {"", "true"}, w \in Askers}
Shaped == {[Simple EXCEPT !.route = r, !.consistency = l, !.limit = n, !.fields = f,
                          !.token = Token("acme", {"auditor"})] :
             r \in {"status", "executions"}, l \in {Unset, "eventual", "bounded", "strong", "other"},
             n \in {0, 1, 9}, f \in {{}, {"owner"}, {"unheard"}}}
Wrong == {[Simple EXCEPT !.large = TRUE], [Simple EXCEPT !.token = NoToken],
          [Simple EXCEPT !.token.valid = FALSE], [Simple EXCEPT !.token.claims = {}],
          [Simple EXCEPT !.token.tenant = ""], [Simple EXCEPT !.wellFormed = FALSE],
          [Simple EXCEPT !.fieldCount = 3], [Simple EXCEPT !.limit = -1],
          [Simple EXCEPT !.audit = "bad"], [Simple EXCEPT !.longCursor = TRUE],
          [Simple EXCEPT !.route = "unmatched"]}

MCSent(c) == IF c = "gate" THEN Asked \cup Shaped \cup Wrong ELSE {Simple}

Undisturbed == BuildStep \/ Start \/ MarkReady \/ Listen("public") \/ \E s \in Settings : Reload(s)

GateNext == ((Undisturbed /\ reply' = NoReply) \/ Request("gate")) /\ accepted' <= 1

-----------------------------------------------------------------------------

MCDocuments == Grid \cup MCRevisions

Init == /\ ConfigInit /\ ProcInit
        /\ focus \in {"provider", "process", "rules", "gate"}
        /\ edits = MaxEdits
        /\ focus = "provider" => file \in MCRevisions
        /\ focus = "rules" => file \in Grid
        \* What plays no role:
        /\ focus \in {"process", "gate"} => file = Plain
        /\ focus \in {"provider", "rules"} => settings = CHOOSE s \in Settings : s.deny

OfProvider(A) == focus = "provider" /\ A /\ UNCHANGED <<focus, procVars>>
OfProcess(A) == focus = "process" /\ A /\ UNCHANGED <<focus, configVars>>

\* The gate's connection is idle beside the others.
Clients == Connections \ {"gate"}

Next ==
  \/ OfProvider(ConfigNext)
  \/ OfProcess((World /\ reply' = NoReply) \/ \E c \in Clients : Request(c))
  \/ focus = "rules" /\ StartLoad /\ UNCHANGED <<focus, procVars>>
  \/ focus = "gate" /\ GateNext /\ UNCHANGED <<focus, configVars>>

\* ConfigFairness and ProcFairness, each for its own behaviours.
Fairness ==
  /\ WF_vars(OfProvider(StartLoad \/ StartHash))
  /\ WF_vars(OfProvider(Watch)) /\ WF_vars(OfProvider(ReloadSwap))
  /\ WF_vars(OfProcess(Run /\ reply' = NoReply))
  /\ WF_vars(OfProcess(GraceExpires /\ reply' = NoReply))

Spec == Init /\ [][Next]_vars /\ Fairness

=============================================================================
