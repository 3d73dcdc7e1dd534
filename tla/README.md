# A TLA+ model of codex-opencode-adapter

The adapter stands between Codex, which speaks the OpenAI Responses API, and an
upstream that speaks Chat Completions. It turns each `POST /v1/responses` into a
chat request, turns the answer (one body, or a stream of deltas) back into
Responses items and events, and stores what a later request needs to continue
with tool outputs. One server serves several projects, found through a registry
file that `init` writes.

The modules here are translated from the Rust sources under `src/src/`;
`PROJECT.json` names the lines of every definition. Run them in this directory:

    tlc -config MCStreamOrderly.cfg MCStream.tla
    tlapm StreamTaskProofs.tla

## 1. The system

| Part | Source | State | Operations | Talks to |
|---|---|---|---|---|
| stream assembler | `conversion/stream_chat_to_responses.rs` | one record per stream: texts, calls, output indexes, done flags, think buffer | `accept`, `finalize`, `fail`, `mark_truncated_as_length` | events to the client; `state_put` once |
| think block splitting | `conversion/text.rs` | none | split a text at `<think>`, hold back an incomplete tag | used by the assembler and the response builder |
| stream task | `server.rs` 279-545 | SSE buffer, the assembler, a permit | one task per streamed request | upstream body in, unbounded channel to the client out |
| request to chat | `conversion/responses_to_chat.rs`, `conversion/mod.rs`, `codex_chat_history.rs` | none | extract, trim, repair, validate the history | reads a stored response |
| state store | `state.rs` | SQLite table of responses, one file per project | `put`, `get`, `find_by_call_ids`, expiry at lookup | all requests of a project |
| response builder | `conversion/chat_to_responses.rs` | none | items, status and stored record of a whole answer | `state_put` |
| tool names | `conversion/tool_context.rs` | names used so far in a request | unique names of at most 64 characters, and back | request and response conversion |
| multimodal input, media guard | `conversion/multimodal_input.rs`, `media_guard.rs` | none | convert content parts, refuse them for text models | request conversion |
| upstream client | `upstream.rs` | an HTTP client with one total timeout | `chat`, `chat_stream`, SSE framing | upstream |
| routing and admission | `server.rs` | loaded projects behind a lock, a semaphore | `responses`, `models`, `admin_refresh`, token check | everything |
| registry and startup | `project.rs`, `main.rs` | the registry file, `AppState.projects` | load, save, find a project, `run`, `auth print-local-token` | `init`, refresh |
| initialisation | `init.rs` | registry, env file, agent templates, Codex configuration | `init` with rollback | registry |
| configuration | `config.rs`, `main.rs` | none | command line, project file, environment, defaults | startup and refresh |

The hard behaviours are these. The assembler sees deltas in any order and cut
anywhere, and emits events that cannot be taken back. A stream can end in seven
ways. Requests overlap: one reads the store long before another writes it, and
clients retry, go away or resend everything. Responses expire; the server
restarts. Call ids may be missing and are then made up. `init`, refresh and
startup read and replace one file without a lock. `PROJECT.json` lists these
hazards line by line with the properties that cover them.

What makes each part correct:

* stream: every item announced once under its own index, closed once with
  exactly what was sent; one terminal event and `[DONE]` however the upstream
  ends; what is stored is what the client was shown; the cut of the deltas does
  not change the result;
* continuation: whichever way Codex continues, the upstream gets the client's
  conversation, each output right behind its call, and nothing that can be
  continued is refused;
* registry: a refresh takes away only what the registry lacked, running projects
  keep their configuration, refreshing converges;
* admission: never more upstream calls than permits (lists of models apart), a refusal only when all are
  out, every permit comes back, every client is answered, and Ctrl-C ends the
  server;
* framing: the events do not depend on where the bytes are cut, and are those of
  a reading line by line;
* tool names: distinct, short, and leading back to the tool;
* initialisation: the user's configuration survives, a rollback restores, and
  success means that all files agree, whatever earlier inits left.

## 2. Modules

| Module | Models | Extends |
|---|---|---|
| `ThinkText` | think tags and JSON canonicalisation, over token sequences | |
| `StreamAssembler` | every state-changing method of the assembler, as functions on its record | `ThinkText` |
| `StreamTask` | the task that drives the assembler, one action per thing the upstream does | `StreamAssembler` |
| `ResponsesStream` | abstract: what the client of a stream may rely on | |
| `ChatHistory` | items to messages: extraction, validation, trimming, replay | |
| `ToolHistory` | the store, overlapping requests, expiry, restarts, and the client | `ChatHistory` |
| `ResponseBuilder` | items and record of an answer in one piece | `StreamAssembler` |
| `RequestLifecycle` | handlers, permits, clients that leave, end and restart of the process | |
| `Admission` | abstract: what the concurrency limit promises | |
| `SseParser` | bytes to text to blocks to events | |
| `ToolNames` | the names of a request's tools, and back | |
| `ProjectRegistry` | `init`, registry file, startup, refresh, configurations, tokens | |
| `InitFiles` | the files of `init`, backup, rollback, kills and repetition | |
| `MCStream`, `MCRequests`, `MCSse`, `MCToolNames` | values of the constants | the module |
| `StreamAssemblerProofs` | lemmas about texts, that each method keeps the assembler well formed, and what it has told the client | the module, `TLAPS` |
| `StreamTaskProofs` | theorems about streams, the refinement of `ResponsesStream`, and that a streamed answer is the answer in one piece | `StreamTask`, `StreamAssemblerProofs` |
| `ToolHistoryProofs`, `SseParserProofs`, `ToolNamesProofs`, `RequestLifecycleProofs`, `ProjectRegistryProofs`, `InitFilesProofs` | theorems | the module, `TLAPS` |

The modules meet in what one leaves open and another decides. `StreamTask` lets a
stream be admitted or refused as it likes; `RequestLifecycle` says which, and
leaves what the upstream says to `StreamTask` and `ResponseBuilder`. The blocks
`StreamTask` hears are made by `SseParser`; the names in its calls are
`ToolNames`'; the record it stores is what `ToolHistory` continues from.
`InitFiles` saves the registry in one step, `ProjectRegistry` in three.

### Streaming

`StreamAssembler` keeps the fields of the Rust struct under their names where it
can (`text`, `reasoning`, `calls`, `think`, `buffered` for
`buffer_text_until_tool_decision`, ...). In place of the event callback, `out` is
what the client has put together from the events: per `output_index` the item's
kind, the deltas added up, the text of its done event and how often it was
closed. A text is a sequence of tokens; `<` stands for every proper prefix of a
tag, a blank for all white space, so a tag can be torn between two deltas. A call's
name may be white space (`BlankNames`): `has_tool_output` and
`has_substantive_output` trim a name (701, 709), the announcement and `finalize`
(616, 235) only ask whether it is empty, and the model has both tests. JSON
arguments are `{`, `}`, blanks and words; canonicalising drops the blanks.
Usage, timestamps, item ids and the wording of events are left out.

`StreamTask` feeds a chunk to the assembler part by part, which is the order in
which `accept` goes through it. With `Orderly` the upstream sends reasoning, then
content, then one call after another with an id of its own, and calls tools only
if some were declared and by names that are not blank; without it, anything goes. Ends: `[DONE]`, an error event
or bad data, a read error or timeout, end of body, refusal for lack of a permit,
a failed connection, and a store that fails (`ok = FALSE`) after all items were
closed.

`Fairness` assumes nothing of the upstream: the runtime polls the task, and the
total timeout given to the HTTP client (`upstream.rs` 27-39) ends a request that
is being connected or read.

`ResponseBuilder` makes the output array and the stored record of an answer in
one piece, in the form `StreamAssembler` has them, so that `StreamedAsWhole` can
compare the two ways of answering the same upstream. A call may lack its
arguments (`bare`), which only `build_response` tells from empty ones.

### Requests

In `RequestLifecycle` a request is whole, streamed, or a list of models. The
handler's work up to its await is one step: nothing can come between, except
other threads' steps on the semaphore and the store, which are atomic. `Order` is
the order in which `responses` and `complete_response` look at a request; which
checks fail is the client's choice. A handler is dropped (`Cancel`) only at an
await, and only whole answers and lists of models await in a handler: a stream's
task is spawned and goes on when its client leaves. The permit of a whole answer
is dropped as soon as the upstream has answered, before the response is built and
stored; a stream's only when its task returns, which is after the terminal event,
so a client that hears the end may find the semaphore still full. `Stop` waits
for open connections, and for tasks between two awaits; a task whose client has
gone is dropped where it waits. A kill can come anywhere; the store survives it.
`models` asks every upstream in turn and needs no permit.

`FairSpec`: the runtime polls each handler and each task, an answer is delivered,
the timeout of the HTTP client ends what it waits for, and a process that may stop
does. Nothing is assumed of clients and upstreams; `UpstreamAnswers` is not fair.

### Event stream

`SseParser` has one byte per thing that the parser tells apart: first and later
bytes of characters, a byte that is in none, CR, LF, the two prefixes, anything
else. `Chunk` is one read of the body; `remainder` and `buffer` are the two
variables of the code. Left out: white space behind a prefix (trimmed), and the
last block of a body without a blank line, which the code drops.

### Tool names

`ToolNames` builds a `ToolContext` tool by tool. `Restored` is the item Codex gets
for an upstream call, `ReplayNames` the names under which the upstream may see that
item again: the reverse lookup searches a hash map, so it may find any of several.
Two corners the properties exclude (`Ambiguous`): two tools with the same original
name, and a `tool_search` whose chat name was numbered, since its calls are
replayed under the literal name. Calls are replayed in the context of the request
that carries them: if its tools come in another order than before, the numbers
differ; and a call of a tool that is not declared any more keeps its name unchanged.

### Continuation

In `ToolHistory` a response is numbered by its request; `store` has its creation
time, the chat messages up to and including it, and the pending call ids. A
`Request` reads the store (`previous_response`, `build_chat_payload`), a
`Respond` writes it later; `Fail` and `Restart` drop what is in flight, and the
store survives because it is a file. `created_at` is the start of a stream but
the end of a whole answer, so `Created` allows both. The client keeps its
conversations (`known`) and continues any of them, again if it likes, in five
ways (`Continuations`): naming the response, naming it and repeating its recent
items, by call ids alone, with a rewritten name, or with the whole history. Call
ids carry a ghost, the response that made the call, so that an output sent under
the wrong call is seen. Texts, system messages and tools are left out.

Known limits that the model shows and the properties exclude: a response that is
named but unknown or expired, with no outputs, is continued without its history
(`whole` is FALSE from there on); a client that names a response and repeats its
history without an output gets it twice, and is not modelled as a way to
continue; outputs of only some of the calls are forwarded with the others left
unanswered.

### Registry

In `ProjectRegistry` saving the registry takes two steps, because `fs::write`
empties the file first; if another `init` wrote in between, the file may end up
unreadable, which `load` takes for empty. `init` may fail or be killed anywhere;
its rollback restores the env file but not the registry. A refresh is admitted,
reads the registry, and changes the projects under the lock, in three steps. An
env file with a broken line stops startup but is skipped by refresh.

Token and API key come from the command line, the env file or the process
environment, in this order (`TokenOf`); startup looks in all three, refresh not in
the last (`server.rs:706`), so a project that only the environment gives a key is
loaded at startup and cannot be loaded by a refresh. `Start` chooses what the
command line and the environment have, and `given` is what of it the server keeps
(`config_overrides`). A token on the command line is the token of every project,
whatever their files say, so `print-local-token`, which reads the files, may print
tokens the server does not accept; that is one way to be `LockedOut`. A token may
also be set to the empty string, which nobody can present. A project cannot be
loaded if it has no key, or if another value of its file is unsound: it does not
parse, the token is the key, or the state database or the HTTP client cannot be
made of it (`server.rs` 717-739, `main.rs` 77-85). The first such project stops
startup; refresh skips it. Left out: disk failures that pass, other values on the
command line, the window in which a rollback rewrites the env file (`InitFiles`
has it), and a caller who kept a token printed earlier.

### Initialisation

`InitFiles` has every file that `init` writes: the Codex configuration, which all
projects share, and the env file and the agent templates of one project. `Write`
is a snapshot and a rename. If it fails, what was written is put back, last file
first, in place (`fs::write`), so a kill or a full disk can leave a file cut
short (`Torn`). A line that cannot be logged ends `init` wherever it is, also in
the middle of the rollback; and if the state directory cannot be made, `init`
returns an error although all files are in place. Four simplifications stand at
the head of the module: registry in one step, file replacement in one step, no two
backups in one second, and the user edits only while no `init` runs.

The Codex configuration is not locked. `Restored` and `Deployed` therefore speak
of it only for an init that had it to itself (`sole`): the rollback of one project
writes back what it read, and undoes the port another project wrote meanwhile.

## 3. Runs

| Run | Checks | Bounds | States |
|---|---|---|---|
| `stream_any` | `TypeOK`, `OneItemPerIndex`, `ClosedAtMostOnce`, `ClosedCallsExact`, `SuccessClosesItems`, `CallsSuppressMessage`, `CallsDelivered`, `StoredAsDelivered` | any upstream: two indexes, two ids, a function, a custom tool and a blank name, reasoning and text, 4 parts | 999 thousand |
| `stream_orderly` | `StreamedAsWhole`, `ClosedTextExact`, `ResponseMirrorsStream`, `TruncationReported`, `ImplementsResponsesStream`, `Ends` | orderly upstream: seven content parts (tags whole, torn, broken, missing), calls with and without arguments, 5 parts | 1.21 million |
| `tool_history` | `TypeOK`, `SameConversation`, `OutputsFollowCalls`, `ContinuationsAccepted`, `StoredHistoryIsKnown` | 3 requests, 2 calls each, clock 0..2, TTL 1 | 462 thousand |
| `requests` | `TypeOK`, `ToldIsStored`, `OnlyAuthorised`, `ImplementsAdmission`, `Answered`, `PermitsReturn`, `Stops` | 2 requests of any kind, 1 permit, 2 projects, 2 starts | 125 thousand |
| `sse` | `TypeOK`, `CutsDoNotMatter`, `HeldBackIfBroken`, `FramedAsLines` | bodies of up to 14 bytes put together from pieces, every cut | 73 thousand |
| `names` | `TypeOK`, `WayBack`, `ReplayedAsCalled` | names of at most 5 characters, 5 tools, or 12 times the same, at most 24 names | 177 thousand |
| `registry` | `TypeOK`, `RemovedOnlyIfAbsent`, `LoadedIsFixed`, `Converges` | 2 projects, 2 inits, 2 refreshes at a time, 3 inits or edits in all, no, an empty or a made-up token on the command line and in the environment, a key or none there | 1.79 million |
| `init_files` | `UserNotLost`, `Restored`, `Deployed` | 2 projects, 3 files each, 3 inits, 1 edit | 3.99 million |
| `tool_history_by_name` | `ValidNameContinues`, violated | upstream without call ids, 3 requests | |
| `tool_history_by_call_ids` | `FallbackLinksRight`, violated | the same with a clock | |
| `registry_new` | `NewProjectRefreshes`, violated | 2 projects, one init at a time | |
| `registry_empty` | `EmptyTokenSkipsAuth`, violated | the same | |

Why the bounds are enough: a tag is two tokens, so five parts hold an opening
tag and a closing tag, one of them torn, and text around them. Each call needs
at most three deltas to show every order of id, name and arguments, and two
indexes show every order between calls. Three requests are a first answer, a
tool round and a second tool round, or a retry, or two conversations that mix;
with a clock of two and a time limit of one, any of the first two can expire
first. Two inits and two refreshes overlap in every way two can, and the third
token lets a project be initialised again or edited. With one permit and two
requests one is refused, or takes the permit after the other, in every phase of
the other; the theorems cover any number. Fourteen bytes hold two events with CRLF
line ends, and a character of three bytes next to a broken one. Twelve tools of one
name need a number of two digits, which takes one more character from the name. In
`init_files` one template stands for four, which are written alike; the third init
repeats one that failed while another project's overlapped.

`CHECK_DEADLOCK FALSE` stands where the bounds end the run, and for the registry
also because a server whose env files are spoiled really cannot be started.
`stream_*` runs need no such line: a finished stream stutters.

### What the runs show

* Streams keep their contract with an orderly upstream: the detailed task
  implements `ResponsesStream` under the mapping in `StreamTask` (`Client`), and
  always ends with a terminal event and `[DONE]`.
* With a disorderly upstream the weaker properties of `stream_any` hold.
  Stronger ones do not, and are not claimed: reasoning after text is sent as a
  delta of a closed item, calls are listed by key but announced as they come, and
  a call with a blank name is shown beside the message, which is announced behind
  it and listed before it.
* An orderly answer that is streamed, however it is cut, gives the output array and
  the stored record that `build_response` gives for it in one piece, up to white
  space inside a think block. The two do differ, in five ways:
  - a block that is never closed is reasoning when streamed, message text
    otherwise; the property says so;
  - a call without arguments has `{}` from `build_response`
    (`chat_to_responses.rs:76`, `text.rs:46`) and nothing from the stream; the
    property says so;
  - a closing tag broken by white space (`BrokenClose`) is closed in a stream whose
    deltas end at the white space, which is trimmed there (`text.rs:172`) before the
    rest comes, but is no tag in one piece; the property leaves such content out,
    and the run meets it;
  - beside a call with a blank name the stream gives the message, `build_response`
    does not (142); an orderly upstream has no such names;
  - an id in a field `call_id`, or an empty one, is kept by `build_response` only;
    it is not modelled.
* With an upstream that gives every call a fresh id, every way to continue
  reaches the upstream with the same conversation. The proof covers any number of
  requests, and shows that the ids are all that the first two findings below need.
* A server that is refreshed again and again converges to the registry, or has
  reached a state in which it accepts no printed token (`LockedOut`). That state
  is reached, for instance, when a refresh reads the registry in the middle of
  a save. Only a restart leads out of it.

* Permits are never lost: not by a handler that is dropped at its await, not by a
  stream whose client has gone, not by a store that fails. Ctrl-C ends the server,
  because the timeout ends every stream.
* Framing is independent of the cuts; an invalid byte keeps everything behind it
  from being parsed, and nothing else is held back.
* Names stay distinct and reversible also when numbered names are taken.
* However inits overlap, fail, are killed and repeated, the user's part of the Codex
  configuration is in the file or in a backup.

### Findings

Four statements of the documents do not hold; each has a run.

1. `ValidNameContinues`: calls without an upstream id are named `call_{index}` in
   every response, so the second tool round of a conversation is refused as a
   duplicate output, although `docs/VALIDATION.zh-CN.md:321` counts a failing
   continuation under a valid name among the things that must not happen.
2. `FallbackLinksRight`: with the same ids, an output without a name is linked
   to another live response once its own has expired
   (`docs/DIAGNOSTICS.md:22`, `docs/VALIDATION.zh-CN.md:322`).
3. `NewProjectRefreshes`: the refresh command of `README.md:94-97`, run in the
   new project's directory, prints a token the server does not accept yet.
4. `EmptyTokenSkipsAuth`: with an empty `CODEX_OPENCODE_LOCAL_TOKEN`
   authorisation is not skipped, as `README.md:136` says; nobody is let in
   (`server.rs:626`).

Three more have no run, since reading the code shows them.

* A rewritten name is refused when outputs come with it: the fallback by call ids
  that `docs/DIAGNOSTICS.md:30` describes is tried only without a name
  (`server.rs:562`).
* Host, port and concurrency of the server come from the command line or the
  defaults (`main.rs` 104-110), while `README.md:104`, `README.md:150` and
  `docs/USAGE.zh-CN.md:129` send the reader to `.codex-opencode-adapter.env` to
  change the port and the concurrency.
* The comment at `main.rs` 241-243 says that the local token comes from the
  command line or the project's file only. That is so where it stands, in
  `load_project_config`, and of a refresh; `run_server` hands the whole process
  environment on, token included.

## 4. Proofs

| Theorem | Says, for every value of the constants |
|---|---|
| `StreamTaskProofs!TypeCorrect`, `IndicesAreOwned`, `ClosedOnceOnly`, `StoredIsDelivered` | `TypeOK`, `OneItemPerIndex`, `ClosedAtMostOnce`, `StoredAsDelivered`, for any indexes, ids, names, texts, any length and order of the stream |
| `StreamTaskProofs!CallsClosedExactly`, `SuccessClosesAll`, `CallsStandAlone`, `CallsAreDelivered`, `CutStreamsReported` | `ClosedCallsExact`, `SuccessClosesItems`, `CallsSuppressMessage` (calls with blank names apart), `CallsDelivered`, `TruncationReported`, for the same |
| `StreamTaskProofs!TextsClosedExactly`, `StreamIsMirrored`, `Refinement` | `ClosedTextExact`, `ResponseMirrorsStream`, `ImplementsResponsesStream`, for an orderly upstream |
| `StreamTaskProofs!StreamEqualsWhole` | `StreamedAsWhole`, for an orderly upstream, any texts and any cuts, and whichever calls lack their arguments |
| `ToolHistoryProofs!TypeCorrect` | `TypeOK`, for any upstream |
| `ToolHistoryProofs!ConversationKept`, `OutputsBehindCalls`, `LiveContinues`, `HistoryStored` | `SameConversation`, `OutputsFollowCalls`, `ContinuationsAccepted`, `StoredHistoryIsKnown`, if call ids are unique, for any number of requests, calls, retries, restarts and expiries |
| `ToolHistoryProofs!UniqueIdsLinkRight`, `UniqueIdsContinue` | `FallbackLinksRight`, `ValidNameContinues`, if call ids are unique: two of the findings are due to the ids alone |
| `SseParserProofs!TypeCorrect`, `CutsAreUnseen`, `OnlyBrokenWaits` | `TypeOK`, `CutsDoNotMatter`, `HeldBackIfBroken`, for any bodies, of any length, cut anywhere |
| `SseParserProofs!BlocksAreEvents` | `FramedAsLines`, for the same |
| `ToolNamesProofs!TypeCorrect`, `CallsFindTheirWayBack`, `CallsAreReplayed` | `TypeOK`, `WayBack`, `ReplayedAsCalled`, for any tools, in any number and order |
| `RequestLifecycleProofs!TypeCorrect`, `Refinement`, `ToldAfterStored`, `TokenComesFirst` | `TypeOK`, `ImplementsAdmission`, `ToldIsStored`, `OnlyAuthorised`, for any requests, permits, projects, flaws and restarts |
| `InitFilesProofs!VersionIsKept`, `RollbackRestores`, `SuccessDeploys` | `UserNotLost`, `Restored`, `Deployed`, for any number of projects, templates, inits and edits |
| `ProjectRegistryProofs!TypeCorrect`, `RemovalsAreJustified`, `ConfigurationIsStable` | `TypeOK`, `RemovedOnlyIfAbsent`, `LoadedIsFixed`, for any number of projects, inits and refreshes |

They rest on the named assumptions about the constants (`PartsAssumption` and
those of `StreamAssembler` and `ThinkText`, `BoundsAssumption`, `BodiesAssumption`, `NamesAssumption`,
`RoomAssumption`, `LifecycleAssumption`, `RegistryAssumption`,
`InitFilesAssumption`), which TLC evaluates in the runs. `RoomAssumption` says that
the number put behind a name is shorter than the limit; with the code's limit of 64
that holds of any request with fewer than 10^62 tools.
`Orderly` is a constant of `StreamTask`: a theorem that assumes it is about the
upstreams `stream_orderly` has, and is false for the others. `IdsGiven` is one of
`ToolHistory`: it says that the upstream gives every call an id, each a new one,
as in the run `tool_history`. Each of the theorems that assume it is false without
it: TLC has a counterexample for each, and two of them are violation runs.

*Streams.* None of these properties is inductive. The proof has four layers, each
an invariant of its own that uses those before it; each has one lemma per method
of the assembler and one case per action of the task.

1. `IInv`: the assembler is well formed. Until the stream ends it is `Good`, and it
   ends once, in a state that satisfies `Ending`. `Good` adds to the types: every
   index below `next_output_index` belongs to one item; the flags `reasoning_done`
   and `text_done` agree with how often the item was closed, which is why nothing
   is closed twice; a call that was announced is shown under its id, and keeps it
   (`Keeps`), which is why the stored ids are the shown ones. The lemmas about
   `finalize` number the calls without an id by `Rank` and show that each is placed
   once.
2. `JInv`: the client was told all the assembler knows. `Told` says that the deltas
   of each item add up to what the assembler has for it, a call's arguments once
   its name is known, and that text is held back exactly while `buffered`; `Thought`
   ties the think detection to the reasoning item. `Concluded` says of the last
   state that every call was closed with the canonical form of what was sent, and
   of a success that all is shut, delivered, and listed in the response. This is
   for any upstream; a call with a blank name is no tool output, so it leaves the
   held text to be told.
3. `OInv`: with an orderly upstream the items lie in order. `Arranged` says that
   reasoning has the first index, text the next and the calls theirs in the order
   of their keys (`Laid`, which counts with `Rank`), that nothing comes for an item
   that is closed, and that no name is blank (`Proper`). So item *n* of the response is the item announced as *n*
   (`Mirrors`), and every step maps to a step or a stutter of `ResponsesStream`.
4. `GInv`: the assembler has what was heard. `Gathered` relates the assembler to
   the history `heard`, and `Detected` says, for each state of the detection, how
   the pieces lie: still detecting, all content is in the buffer and may become a
   tag; inside a block (`Within`), reasoning and buffer together spell what follows
   the opening tag, with at most a proper prefix of the closing tag held back
   (`Thinks`); done, there was no block, or the block was split as
   `build_response` splits it, or it was never closed (`Parted`). The lemmas under
   it are about texts alone: where the first tag of a text is, how that changes
   when a text is continued, and that `Words`, which drops white space, does not
   see the cuts. `Rendered` is what is left of it at the end, and
   `StreamEqualsWhole` compares that with `BuiltOutput` and `BuiltRecord`.

*Continuation.* What the store holds, what a request in flight will store, and what
was last sent upstream are all rewritten histories, so the invariant (`HInv`) says
of each that it tells the client's conversation. `Tells` says of messages that each
output stands behind the message that made its call (`Placed`), none of them twice,
and that they have the shape and the outputs of the client's items, if the history
was never lost. `Fluent` says of the client's items that no call and no output is
there twice and that outputs are of calls in them. `KnownAt` puts the two together
for every response the client has: its items end with the answer, the stored
messages with the calls (`Ends`), and these are the ones awaited. `FlightAt` does
so for every request in flight, whose base may have expired or been continued by
another request meanwhile. `OwnIds` says that the store has an id only under the
response that made it, which is why a search by ids finds that one.
With the properties about the last request this is inductive. `Respond` keeps it by
`RecordTells`: what is stored is what was sent and the new calls. `Request` keeps
it by `ContinuedTells` for a history that was found (naming it, naming it and
repeating the last items, by ids alone) and by `StatelessTells` for items that
bring everything along, where the repair (`Replay`) puts each output behind its
call again. `Fail` and `Restart` only take away, and the clock decides no more than
which responses are live. Below are laws about
the functions that go through a history item by item. Each is written as a
concatenation of what it makes of the single items (`Parts`), so that one
induction, `PartsLaws`, gives each its three laws: nothing of nothing, what of one
item, and the concatenation for two parts.

*Event stream.* The invariant (`SInv`) is `CutsDoNotMatter` itself: the parser is
where one chunk would have led. A chunk keeps it because decoding and framing go
on where they stopped: `ValidGoesOn` (`valid_up_to` of what waited and the chunk,
added to that of what came before, is `valid_up_to` of all) and `DrainGoesOn` (the
blocks of a text that goes on are its blocks and those of what was left, gone
on). The second rests on `BlockGoesOn`: a later byte never moves the first blank
line, not even where one delimiter overlaps another. The other theorems follow
from the invariant: `DrainIsWhole`, because no character is unfinished at a line
end, and `AtMostTwoWait`. `FramedAsLines` compares two readings of the text that
the invariant says was framed. `BlocksAreHeard` shows by induction over blocks that
they agree. A text with a blank line is a block, the end of its last line, the end
of the empty line, and what is left (`BlockIsCut`). Behind a line end the lines of
a text start anew (`LinesConcat`), behind an empty line the groups of lines do
(`ByLinesConcat`); and in between no line is empty but perhaps the first
(`NoBlankNoEmpty`, since an empty line is two line ends in a row), so that the
block is one group (`OneGroup`), heard alike with and without its last line end
(`HeardWithEnd`). With both kinds of line end in one text this is false: LF CR LF
is an empty line but no delimiter. `Missing` and `Drain` are recursive, so these are
inductions over texts. `AllNumbers` says that a set of numbers that has 0 and each
successor has them all (from the well-foundedness of `<`), `AllTexts` and
`AllTextsByBlocks` carry that over to sequences and to the loop over the buffer;
`MissingCounts` and `DrainPasses` show first that the recursive definitions have a
solution, and so satisfy their equations.

*Tool names.* The invariant (`NInv`) says that the names are acceptable and distinct
(`NamesFit`), that the maps are about those names (`MapsFit`) and agree with each
other (`Agreeing`), and that the context offers what was declared (`Offers`).
A tool that is added keeps it (`AddToolAdds`) because `SafeName` finds a free name
(`SafeNameIsFree`). That needs three facts: decimals differ when their numbers do
(`DecimalsDiffer`, by least counterexample); so do numbered names, although the
longer number leaves less of the name (`NumberedDiffer`: what follows the last
underscore is the decimal); and of one more numbers than there are names in use,
one makes a name that is free. Namespaces add their functions one by one, by induction on
their number (`ChildrenAdd`), with the equations of `FlattenSeq` (`FlattenAppend`).
`WayBack` then is `Offers`. `ReplayedAsCalled` follows since a name found by the
original name, or by namespace and name, has the same original name, which only
one name has when it is not `Ambiguous`.

*Registry.* A refresh removes what it has not seen, so the invariant relates
what each refresh has seen, and what the file lacks now, to what the file has
lacked since the refresh was admitted (`Observed`).

*Requests.* Permits and holders must add up: `Accounted` says that `free` and the
number of `Holders` make `Capacity`, which is why a refusal is right, why the
semaphore never overflows, and what maps each step to one of `Admission`.
`Consistent` ties what a client was told to the phase, the store and the checks,
request by request. The refinement has one case per action, most of them stutters.

*Initialisation.* `UserNotLost` is not inductive, because an init between backup
and write is about to replace the file: `Kept` says the version is in a backup by
then. `Held` says what a rollback will put back (the files not yet written are as
found, the snapshots hold the others), `Written` what the files written so far
contain, `Alone` that nobody else is at the shared file. With `Position`, which
bounds the index into the snapshots, and `TypeOK` they are inductive.

Model-checked only: liveness (`Ends`, `Converges`, `Answered`, `PermitsReturn`,
`Stops`), which needs fairness and ENABLED. Every other property of a passing run
is a theorem.

## 5. Not modelled, and the plan

Left out for good: multimodal conversion and the media guard (stateless
rewriting and lists of names), the command line and logging, the Python
predecessor under `build/lib`, the PowerShell scripts, and wording everywhere.

Left out until a document says what should hold: how often `instructions` reach
the upstream when requests are chained (they are stored with the history and sent
again); concurrent inits of one second, whose backups have one name; host, port
and concurrency, see the findings; and the lookup of a project for a command or a
route (`resolve_project`, `project_runtime`), which is a search in a list.

What a next step could add: system messages in `ChatHistory`, with a count of the
repeated ones.
