------------------------------ MODULE ToolAdapters ------------------------------
(***************************************************************************)
(* How the framework adapters (src/authgate/adapters) put the verifier in  *)
(* front of a tool.                                                        *)
(*                                                                         *)
(* A callable is the sequence of actions its wrappers submit to their      *)
(* verifier before the tool at its end runs, the outermost first; a bare   *)
(* tool is the empty sequence.                                             *)
(***************************************************************************)
EXTENDS DecisionVerifier, SequencesExt

CONSTANT NoTool    \* what getattr finds of an attribute that is not there

Bare == << >>

ASSUME NoToolAssumption == NoTool # Bare

\* No adapter fills in the humans governed, or an epoch.
Submitted(agent, reads, writes, delegates, flags) ==
    [actor |-> agent, governs |-> {}, flags |-> flags, min_epoch |-> 0,
     uses |-> [op \in Operations |-> CASE op = "read" -> reads [] op = "write" -> writes
                                       [] op = "delegate" -> delegates]]

\* The wrappers raise unless the verifier permits, and then call on.
Runs(g, callable, t) == \A i \in DOMAIN callable : verify(g, callable[i], t).permitted

\* The action the decorator of AutoGen, CrewAI, Grok or the OpenAI adapter puts
\* in front.
tool(agent, fn, reads, writes, delegates, flags) ==
    <<Submitted(agent, reads, writes, delegates, flags)>> \o fn

\* LangChain's decorator has no resources to delegate; nor have LangGraph's
\* tools and nodes, and these have no flags.
kernel_gate(agent, fn, reads, writes, flags) == <<Submitted(agent, reads, writes, {}, flags)>> \o fn
make_verified_tool(agent, fn, reads, writes) == kernel_gate(agent, fn, reads, writes, {})

\* A state without a mapper asks for no resource at all.
FreedomGraphNode(agent, node_fn, mapper) ==
    IF mapper = << >> THEN make_verified_tool(agent, node_fn, {}, {})
    ELSE make_verified_tool(agent, node_fn, mapper[1].read, mapper[1].write)

\* FreedomTool._verify: without a verifier, or an agent, there is no check.
FreedomTool_verify(installed, agent, fn, reads, writes) ==
    IF installed THEN kernel_gate(agent, fn, reads, writes, {}) ELSE fn

\* A subclass has its _run wrapped where langchain_core is installed, as here,
\* so that run checks twice.
FreedomTool_run(installed, agent, fn, reads, writes) ==
    FreedomTool_verify(installed, agent,
                       FreedomTool_verify(installed, agent, fn, reads, writes), reads, writes)

\* resource_map.get: a name without an entry has no resources.
Entry(resource_map, name) ==
    IF name \in DOMAIN resource_map THEN resource_map[name]
    ELSE [read |-> {}, write |-> {}, delegate |-> {}]

\* Mutant: every wrapper looks up the name the loop ended with.
register_late_bound(agent, function_map, resource_map) ==
    LET last == CHOOSE n \in DOMAIN function_map : TRUE
    IN  [n \in DOMAIN function_map |->
            tool(agent, function_map[n], Entry(resource_map, last).read, Entry(resource_map, last).write, {}, {})]

\* AutoGen's register.
register(agent, function_map, resource_map) ==
    [n \in DOMAIN function_map |->
        tool(agent, function_map[n], Entry(resource_map, n).read, Entry(resource_map, n).write, {}, {})]

\* What AutoGen's check_message and Anthropic's check_block ask about the name of
\* a call.
check_message(agent, resource_map, name) ==
    Submitted(agent, Entry(resource_map, name).read, Entry(resource_map, name).write, {}, {})

\* The DSPy proxy guards the two ways to invoke a module with one read; any
\* other method is the module's own.
dspy_guard(actor, module, resource) ==
    [m \in DOMAIN module |->
        IF m \in {"__call__", "forward"}
        THEN <<Submitted(actor, {resource}, {}, {}, {})>> \o module[m] ELSE module[m]]

\* MCP: what is to be executed is asked for as a delegation.
mcp_check(agent, call) == Submitted(agent, call.read, call.write, call.execute, {})
wrap_handler(agent, handler, mapper) ==
    <<mcp_check(agent, IF mapper = << >> THEN [read |-> {}, write |-> {}, execute |-> {}] ELSE mapper[1])>>
    \o handler

\* A CrewAI task, a function from its attributes to callables: the first of the
\* entry points that is there is replaced, the others stay as they are.
EntryPoints == <<"execute", "execute_sync", "action", "_execute_core">>

guard_task(agent, task, reads, writes, delegates, flags) ==
    LET present == {i \in DOMAIN EntryPoints : EntryPoints[i] \in DOMAIN task /\ task[EntryPoints[i]] # NoTool}
        first == EntryPoints[CHOOSE i \in present : \A j \in present : i <= j]
    IN  IF present = {} THEN task
        ELSE [task EXCEPT ![first] = tool(agent, @, reads, writes, delegates, flags)]

\* Tasks that are not in the map are guarded with no resources.
wrap_crew(agent, crew, task_resource_map) ==
    [k \in DOMAIN crew |->
        LET wanted == Entry(task_resource_map, k)
        IN  guard_task(agent, crew[k], wanted.read, wanted.write, wanted.delegate, {})]

===============================================================================
