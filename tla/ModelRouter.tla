---------------------------- MODULE ModelRouter -----------------------------
(***************************************************************************)
(* The runtime choice of a language model: the provider list of            *)
(* vectors/generative_router.rs with its failover, and switch_model of     *)
(* api/ai.rs, which activates a cached model in the handler and downloads  *)
(* any other in a background task.  The list is read or written under its  *)
(* lock; a call works on a copy of it.                                     *)
(***************************************************************************)
EXTENDS Integers, Sequences, SequencesExt

CONSTANTS
    Models,         \* built-in models
    Default,        \* the configured one
    Switchers,      \* requests to switch the model
    ModelCallers,        \* generate and classify calls
    MaxRestarts     \* bound: restarts of the process

NoModel == ""

ASSUME RouterAssumption ==
    /\ Default \in Models /\ NoModel \notin Models
    /\ Switchers \cap Models = {}
    /\ MaxRestarts \in Nat

VARIABLES
    configured,     \* the provider of the configuration: builtin or cloud
    providers,      \* GenerativeRouter.providers, in the order of their priority
    setting,        \* app_settings.builtInLlmModel
    cached,         \* models on disk
    downloading,    \* DOWNLOADING
    tasks,          \* handlers and, by model, background downloads
    calls,          \* generate calls: the copy of the list and who was asked
    chosen,         \* history: the model asked for last, unless another request was under way
    restarts

routerVars == <<configured, providers, setting, cached, downloading, tasks, calls, chosen, restarts>>

-----------------------------------------------------------------------------
Types == {"builtin", "cloud"}

Provider == [type : Types, model : Models \cup {NoModel}, enabled : BOOLEAN]

IdleTask == [pc |-> "idle", model |-> Default]

IdleCall == [pc |-> "idle", todo |-> << >>, copy |-> {}, asked |-> {}]

Tasks == Switchers \cup Models

Busy(k) == tasks[k].pc # "idle"

TaskAt(k, label) == tasks' = [tasks EXCEPT ![k].pc = label]

\* Some places of a list, in their order, and what is there (Vec::retain, filter).
InOrder(places) ==
    CHOOSE f \in [1..Cardinality(places) -> places] : \A i, k \in DOMAIN f : i < k => f[i] < f[k]

EntriesAt(list, places) == [n \in 1..Cardinality(places) |-> list[InOrder(places)[n]]]

EnabledOnes(list) == EntriesAt(list, {i \in DOMAIN list : list[i].enabled})

\* register: the provider of the same type goes, the new one comes last among
\* its equals in priority (every caller registers at priority 1), enabled.
Registered(type, model) ==
    Append(EntriesAt(providers, {i \in DOMAIN providers : providers[i].type # type}),
           [type |-> type, model |-> model, enabled |-> TRUE])

\* The list as it is built at startup.
Started(c, m) == << [type |-> c, model |-> IF c = "builtin" THEN m ELSE NoModel, enabled |-> TRUE] >>

BuiltInModels == {providers[i].model : i \in {k \in DOMAIN providers : providers[k].type = "builtin"}}

-----------------------------------------------------------------------------
RouterInit ==
    /\ configured \in Types
    /\ providers = Started(configured, Default)
    /\ setting = NoModel
    /\ cached = {Default} /\ downloading = {}
    /\ tasks = [k \in Tasks |-> IdleTask]
    /\ calls = [c \in ModelCallers |-> IdleCall]
    /\ chosen = NoModel /\ restarts = 0

Choose(m) == chosen' = IF \A k \in Tasks : ~Busy(k) THEN m ELSE NoModel

\* switch_model looks the model up on disk. A cached one is opened at once; an
\* error there is the answer.
SwitchModel(x, m) ==
    /\ ~Busy(x)
    /\ \/ /\ tasks' = [tasks EXCEPT ![x] = [pc |-> IF m \in cached THEN "register" ELSE "reserve",
                                            model |-> m]]
          /\ Choose(m)
       \/ m \in cached /\ UNCHANGED <<tasks, chosen>>
    /\ UNCHANGED <<configured, providers, setting, cached, downloading, calls, restarts>>

\* Any other is downloaded, unless that is under way.
Reserve(x) ==
    /\ tasks[x].pc = "reserve"
    /\ LET m == tasks[x].model
       IN  IF m \in downloading
           THEN TaskAt(x, "idle") /\ UNCHANGED downloading
           ELSE /\ downloading' = downloading \cup {m}
                /\ tasks' = [tasks EXCEPT ![x].pc = "idle", ![m] = [pc |-> "load", model |-> m]]
    /\ UNCHANGED <<configured, providers, setting, cached, calls, chosen, restarts>>

\* The loader's error is logged; the entry of DOWNLOADING is removed all the same.
FailedLoad == "release"

Load(m) ==
    /\ tasks[m].pc = "load"
    /\ \/ cached' = cached \cup {m} /\ TaskAt(m, "register") /\ UNCHANGED chosen
       \/ TaskAt(m, FailedLoad) /\ chosen' = NoModel /\ UNCHANGED cached
    /\ UNCHANGED <<configured, providers, setting, downloading, calls, restarts>>

\* The model takes its place in the router, then in the settings.
RegisterModel(k) ==
    /\ tasks[k].pc = "register"
    /\ providers' = Registered("builtin", tasks[k].model)
    /\ TaskAt(k, "persist")
    /\ UNCHANGED <<configured, setting, cached, downloading, calls, chosen, restarts>>

SettingOf(k) == tasks[k].model

\* The error of the statement is dropped (`let _ =`).
PersistSetting(k) ==
    /\ tasks[k].pc = "persist"
    /\ \/ setting' = SettingOf(k) /\ UNCHANGED chosen
       \/ chosen' = NoModel /\ UNCHANGED setting
    /\ TaskAt(k, IF k \in Models THEN "release" ELSE "idle")
    /\ UNCHANGED <<configured, providers, cached, downloading, calls, restarts>>

ReleaseDownload(m) ==
    /\ tasks[m].pc = "release"
    /\ downloading' = downloading \ {m}
    /\ TaskAt(m, "idle")
    /\ UNCHANGED <<configured, providers, setting, cached, calls, chosen, restarts>>

\* disable_provider, enable_provider
SetProvider(type) ==
    /\ \E b \in BOOLEAN :
          providers' = [i \in DOMAIN providers |->
                           IF providers[i].type = type THEN [providers[i] EXCEPT !.enabled = b]
                           ELSE providers[i]]
    /\ providers' # providers
    /\ UNCHANGED <<configured, setting, cached, downloading, tasks, calls, chosen, restarts>>

-----------------------------------------------------------------------------
\* generate and classify copy the enabled providers.
BeginCall(c) ==
    /\ calls[c].pc = "idle"
    /\ LET list == EnabledOnes(providers)
       IN  calls' = [calls EXCEPT ![c] = [pc |-> "asking", todo |-> list, copy |-> ToSet(list),
                                          asked |-> {}]]
    /\ UNCHANGED <<configured, providers, setting, cached, downloading, tasks, chosen, restarts>>

Asks(c) == calls[c].pc = "asking" /\ calls[c].todo # << >>

Asked(c) == calls[c].asked \cup {Head(calls[c].todo)}

\* The next provider answers.
Answer(c) ==
    /\ Asks(c)
    /\ calls' = [calls EXCEPT ![c].pc = "answered", ![c].asked = Asked(c)]
    /\ UNCHANGED <<configured, providers, setting, cached, downloading, tasks, chosen, restarts>>

\* Mutant: the first failure ends the call.
StopAtFailure(c) == << >>

\* `continue`: whoever comes next.
TriedNext(c) == Tail(calls[c].todo)

\* It is unavailable, or fails.
TryNext(c) ==
    /\ Asks(c)
    /\ calls' = [calls EXCEPT ![c].todo = TriedNext(c), ![c].asked = Asked(c)]
    /\ UNCHANGED <<configured, providers, setting, cached, downloading, tasks, chosen, restarts>>

\* AllProvidersUnavailable
FailCall(c) ==
    /\ calls[c].pc = "asking" /\ calls[c].todo = << >>
    /\ calls' = [calls EXCEPT ![c].pc = "failed"]
    /\ UNCHANGED <<configured, providers, setting, cached, downloading, tasks, chosen, restarts>>

\* The process starts again and restores the persisted selection; a built-in
\* model is registered only when it is the configured provider.
RouterRestart ==
    /\ restarts < MaxRestarts
    /\ restarts' = restarts + 1
    /\ providers' = Started(configured, IF setting = NoModel THEN Default ELSE setting)
    /\ downloading' = {}
    /\ tasks' = [k \in Tasks |-> IdleTask]
    /\ calls' = [c \in ModelCallers |-> IdleCall]
    /\ chosen' = IF \E k \in Tasks : Busy(k) THEN NoModel ELSE chosen
    /\ UNCHANGED <<configured, setting, cached>>

TaskStep(k) ==
    \/ k \in Switchers /\ Reserve(k)
    \/ k \in Models /\ (Load(k) \/ ReleaseDownload(k))
    \/ RegisterModel(k) \/ PersistSetting(k)

CallStep(c) == Answer(c) \/ TryNext(c) \/ FailCall(c)

RouterNext ==
    \/ \E x \in Switchers, m \in Models : SwitchModel(x, m)
    \/ \E k \in Tasks : TaskStep(k)
    \/ \E t \in Types : SetProvider(t)
    \/ \E c \in ModelCallers : BeginCall(c) \/ CallStep(c)
    \/ RouterRestart

RouterSpec == RouterInit /\ [][RouterNext]_routerVars

\* Handlers and spawned tasks run to their end.
RouterFairness == \A k \in Tasks : WF_routerVars(TaskStep(k))

RouterFairSpec == RouterSpec /\ RouterFairness

-----------------------------------------------------------------------------
RouterTypeOK ==
    /\ configured \in Types
    /\ providers \in Seq(Provider)
    /\ \A i, k \in DOMAIN providers : providers[i].type = providers[k].type => i = k
    /\ setting \in Models \cup {NoModel} /\ chosen \in Models \cup {NoModel}
    /\ cached \subseteq Models /\ downloading \subseteq Models
    /\ tasks \in [Tasks -> [pc : {"idle", "reserve", "load", "register", "persist", "release"},
                            model : Models]]
    /\ \A c \in ModelCallers : calls[c].pc \in {"idle", "asking", "answered", "failed"}
    /\ restarts \in 0..MaxRestarts

\* A call fails only after every provider that was enabled when it began was
\* asked, whatever is switched, disabled or enabled meanwhile.
EveryoneIsAsked == \A c \in ModelCallers : calls[c].pc = "failed" => calls[c].asked = calls[c].copy

\* Once the switch the user asked for is over, its model is the only built-in
\* one and the persisted one, and it is so again after a restart when the
\* built-in provider is the configured one. A second request meanwhile, or a
\* failure to load or to write, voids the promise.
ChoiceTakesEffect ==
    chosen # NoModel /\ (\A k \in Tasks : ~Busy(k)) =>
        /\ setting = chosen
        /\ restarts = 0 \/ configured = "builtin" => BuiltInModels = {chosen} /\ Len(providers) <= 2

\* A download ends, well or badly, and can then be asked for again.
DownloadsEnd == \A m \in Models : m \in downloading ~> m \notin downloading

\* The providers, the choice of the user and the calls under way.
RouterInv == RouterTypeOK /\ EveryoneIsAsked /\ ChoiceTakesEffect
=============================================================================
