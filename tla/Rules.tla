------------------------------- MODULE Rules -------------------------------
(* Checks of the pure definitions over bounded inputs: what each computes is *)
(* compared with what it promises, or with a definition by its meaning.     *)
(* TLC evaluates them once, at the start of every run of this module.       *)
EXTENDS Routing, Channels, Composition, Bundle, Migration, Settings, Reading

(* -------------------------------- Routing ------------------------------- *)

\* a message that somebody sends to a group, naming the bot
Spoken == [origin |-> "incoming", type |-> "message.created", kind |-> "group", sender |-> "ann",
           self |-> "bot", replied |-> Absent, replyTo |-> FALSE, capability |-> "yes",
           message |-> TRUE, named |-> FALSE, mentions |-> <<"bot">>, text |-> {}, native |-> FALSE,
           target |-> Absent, topic |-> {}]

\* every policy and the messages that matter to it
RoutedPolicies == [mode : {"always", "mention", "keyword", "mention_or_keyword", "never"},
                   allowed : BOOLEAN, bots : {{}, {"bot"}}]
RoutedEvents ==
  {[Spoken EXCEPT !.kind = k, !.replied = r, !.replyTo = r # Absent, !.mentions = ms, !.text = t,
                  !.named = n] :
     k \in {"private", "group"}, r \in {Absent, "yes", "no"}, n \in BOOLEAN,
     ms \in {<<>>, <<"all">>, <<"unknown">>, <<"ann">>, <<"bot">>, <<"ann", "bot">>, <<"all", "bot">>},
     t \in SUBSET {"prefix", "keyword"}}

\* A mention of the bot in front of a message never silences it, what is a
\* command is answered wherever the bot is addressed, and an answer to a reply
\* needs no other sign (router.ts 92-168).
ASSUME RoutingSound ==
  \A policy \in RoutedPolicies, e \in RoutedEvents :
    LET routed == Evaluated(policy, e)
        named == Evaluated(policy, [e EXCEPT !.mentions = <<"bot">> \o @])
    IN  /\ routed.responds => named.responds
        /\ ("prefix" \in e.text /\ named.responds) => named.kind \in {"command", "reply"}
        /\ e.replied = "yes" => routed.responds = (policy.mode # "never")
        /\ WithHistory(routed) = (routed.kind # "command")

Branch(line, status, words) == [line |-> line, status |-> status, terms |-> words]
SeenLines ==
  [mainline : {"main"}, replay : {Absent, "b1"}, explicit : {Absent}, reply : {Absent, "b2"},
   branches : SUBSET {Branch("b1", "active", {"tea", "pot"}), Branch("b2", "blocked", {"tea", "cup"}),
                      Branch("b3", "merged", {"tea"})},
   latest : {[line |-> "main", at |-> 0], [line |-> "b1", at |-> 2]}]

\* A message returns to the line it is on, is never put on a line that is
\* closed, and two branches that fit alike leave it on the main line
\* (attribution.ts 101-196).
ASSUME AttributionSound ==
  \A shown \in SeenLines, words \in SUBSET {"tea", "cup", "pot"}, now \in {1, 3, 9},
     patterns \in {{}, {"topic_shift"}} :
    LET decision == Attribute(shown, patterns, words, FALSE, now, 5)
    IN  /\ shown.replay # Absent => decision.line = shown.replay
        /\ decision.line \in {"main", shown.replay, shown.reply}
                               \union {b.line : b \in {x \in shown.branches : x.status # "merged"}}
        /\ (shown.replay = Absent /\ shown.reply = Absent /\ words = {"tea"} /\ shown.latest.line = "main"
              /\ {"b1", "b2"} \subseteq {b.line : b \in shown.branches})
             => decision.line = "main"

(* ------------------------------ Composition ----------------------------- *)

Messages3 == UNION {[1..n -> {[key |-> k, version |-> 1, required |-> FALSE, size |-> z] :
                               k \in {"k", "l"}, z \in {1, 3}}] : n \in 0..3}
BlockSizes == UNION {[ids -> {1, 2}] : ids \in {{"workspace", "time"},
                       {"workspace", "time", "memory"}, {"workspace", "time", "conversation", "memory"}}}

\* What is adopted fits the budget, holds everything that is required and no
\* source twice, and of two messages of one source the newer one; what was
\* left out for lack of room had none when its turn came (budget.ts 24-93).
ASSUME BudgetSound ==
  \A sizes \in BlockSizes, messages \in Messages3, max \in 0..9, reserved \in {0, 2} :
    LET result == Allocate(Sections(sizes), messages, max, reserved)
        taken == Adopted(result)
        before(i) == reserved + SizeOfAll([j \in 1..i - 1 |->
                       [size |-> IF result.entries[j].reason = "adopted"
                                   THEN result.entries[j].item.size ELSE 0]])
    IN  ~result.failed =>
          /\ result.used <= max
          /\ result.used = reserved + SizeOfAll([i \in DOMAIN taken |-> taken[i].item])
          /\ \A i, j \in DOMAIN taken : i # j => taken[i].item.key # taken[j].item.key
          /\ \A id \in {"workspace", "time"} : \E i \in DOMAIN taken : taken[i].item.key = id
          /\ \A i \in DOMAIN result.entries :
               result.entries[i].reason = "budget" => before(i) + result.entries[i].item.size > max

Lines3 == UNION {[1..n -> {[line |-> l, source |-> s, at |-> t, size |-> 2, deleted |-> FALSE] :
                            l \in {"main", "side"}, s \in {"m", "o"}, t \in {1, 5}}] : n \in 0..2}

\* History is the newest messages of the line without the current one, none of
\* them too old, and no message that would still fit is left out between them
\* (composer.ts 62-98, history.ts).
ASSUME HistorySound ==
  \A transcript \in Lines3, max \in {0, 2, 3, 4}, ttl \in {0, 2} :
    LET input == [history |-> TRUE, line |-> "main", limit |-> 2, source |-> "m", at |-> 6, ttl |-> ttl]
        shown == History(transcript, input, max)
    IN  /\ SizeOfAll(shown) <= max
        /\ \A i \in DOMAIN shown : shown[i].source = "o" /\ shown[i].line = "main"
                                     /\ (ttl # 0 => shown[i].at = 5)
        /\ (max = 4 /\ ttl = 0) =>
             Len(shown) = Cardinality({i \in DOMAIN transcript :
                            transcript[i].line = "main" /\ transcript[i].source = "o"})

\* Memories are those at the head of the list, within the limit; the first one
\* is shortened where it has to be, never dropped while a letter of it fits
\* (composer.ts 230-259, 315-328).
ASSUME MemoriesSound ==
  \A records \in UNION {[1..n -> {[size |-> z, plain |-> 2, marked |-> 5] : z \in {1, 9, 30}}] : n \in 0..2},
     max \in 0..40 :
    LET shown == Memories(records, max)
    IN  /\ Len(shown) <= Len(records)
        /\ \A i \in DOMAIN shown : i > 1 => shown[i] = records[i]
        /\ (records # <<>> /\ shown = <<>>) => max < records[1].size + 2 /\ max < 5
        /\ shown # <<>> => \/ SizeOfAll(shown) + 2 * Len(shown) <= max
                           \/ Len(shown) = 1 /\ shown[1].size + 5 <= max

Refs3 == {[name |-> n, of |-> l] : n \in {"r1", "r2"}, l \in {Nothing, "main", "side"}}
TaskRow(id, line) == [id |-> id, session |-> "s", line |-> line, status |-> "open"]
ReadRequests == [task : {Nothing, "t3"}, session : {"s"}, line : {"main", "side"}, branch : BOOLEAN,
                 tools : SUBSET {"task.list", "context.refs", "context.read"},
                 names : SUBSET {"r1"}, continuing : BOOLEAN]

\* What a call is shown of its session without asking stays on its line: no
\* ref of another line, none at all on a branch, contents only of refs that are
\* listed too and never by a guess between two; no task of another line unless
\* the run is about it (composer.ts 148-228).
ASSUME ContextScoped ==
  \A refs \in {rs \in SUBSET Refs3 : Cardinality(rs) <= 3}, q \in ReadRequests :
    LET shown == ShownRefs(refs, q)
        listed == ListedTasks(<<TaskRow("t1", "main"), TaskRow("t2", Nothing), TaskRow("t3", "side")>>, q)
    IN  /\ shown \subseteq RelevantRefs(refs, q)
        /\ \A r \in RelevantRefs(refs, q) : r.of \in {Nothing, q.line} /\ ~q.branch
        /\ Cardinality({r \in shown : r.of = Nothing /\ r.name \notin q.names}) <= 1
        /\ \A i \in DOMAIN listed : \/ listed[i].line = q.line
                                     \/ (listed[i].line = Nothing /\ ~q.branch)
                                     \/ listed[i].id = q.task

(* -------------------------------- Bundle -------------------------------- *)

Prompt(slot, tools) == [slot |-> slot, stage |-> "reasoning", enabled |-> TRUE, whenTools |-> tools,
                        used |-> {}, variables |-> {}]
Skill(mode, limited, needs, mark, priority) ==
  [purposes |-> {"chat"}, mode |-> mode, dimensions |-> ("kind" :> {"group"}), prompts |-> <<mark>>,
   required |-> needs, limited |-> limited, allowed |-> {"read"}, conflicts |-> {}, group |-> NoGroup,
   trust |-> "runtime", priority |-> priority]
SmallBundle(limited, needs) ==
  [prompts |-> [base |-> Prompt("runtime", {}), reader |-> Prompt("output", {"read"}),
                writer |-> Prompt("behavior", {"write"}), s |-> Prompt("skill", {}), t |-> Prompt("skill", {})],
   recipes |-> [chat |-> [stage |-> "reasoning", base |-> <<"reader", "writer", "base">>,
                          dimensions |-> ("kind" :> ("group" :> <<"base">> @@ "default" :> <<"reader">>))]],
   skills |-> [s |-> Skill("explicit", limited, needs, "s", 1), t |-> Skill("explicit_or_scene", FALSE, {}, "t", 2)]]
Invocations == [purpose : {"chat"}, dimensions : {[kind |-> "group"], [kind |-> "private"]},
                tools : SUBSET {"read", "write", "skill.read"}, requested : SUBSET {"s", "t", "d", "x"},
                directories : {[i \in {} |-> "none"], ("d" :> "skill:d")}]

\* A skill never gives a call a tool it would not have without it, a prompt that
\* is about a tool comes only with the tool, the runtime's own prompts stand
\* first, and a call is refused only for a skill that is unknown or lacks a tool
\* (bundle.ts 94-345).
ASSUME CompilationSound ==
  \A limited \in BOOLEAN, needs \in {{}, {"write"}}, input \in Invocations :
    LET bundle == SmallBundle(limited, needs)
        result == Compiled(bundle, input)
        plain == Compiled(bundle, [input EXCEPT !.requested = {}])
        refused == "refused" \in DOMAIN result
    IN  /\ ValidBundle(bundle, {})
        /\ refused <=> \/ ~(input.requested \subseteq {"s", "t"} \union DOMAIN input.directories)
                       \/ "s" \in input.requested /\ ~(needs \subseteq input.tools)
        /\ ~refused =>
             /\ result.tools \subseteq plain.tools
             /\ ("writer" \in Range(result.prompts)) = ("write" \in result.tools)
             /\ Head(result.prompts) = "base"
             /\ "s" \in Range(result.prompts) <=> "s" \in input.requested
             /\ ("workspace.skill-catalog" \in Range(result.prompts)) =>
                  "skill.read" \in result.tools

File(path, folder, size) == [name |-> path, folder |-> folder, size |-> size, link |-> FALSE, encrypted |-> FALSE]
Archives == SUBSET {File(<<"root", "a", "SKILL.md">>, FALSE, 2), File(<<"root", "a", ".gitignore">>, FALSE, 1),
                    File(<<"root", "b", "x">>, FALSE, 9), File(<<"root", "a">>, TRUE, 0),
                    File(<<"root", "a", "..", "y">>, FALSE, 1), File(<<"other", "a", "z">>, FALSE, 1)}

\* What an archive puts on the disk lies below the skill's own directory and in
\* its limits, whatever the rest of the archive holds (skill-archive.ts).
ASSUME ArchivesSound ==
  \A entries \in Archives, strip \in BOOLEAN, directory \in {<<>>, <<"a">>} :
    ArchiveAccepted(entries, strip, directory, 2, 4, 5) =>
      \A e \in Extracted(entries, strip, directory) :
        /\ e.size <= 4 /\ ~e.folder
        /\ Range(Target(e, strip, directory)) \intersect {"..", ".gitignore"} = {}
        /\ SkillPath(Target(e, strip, directory))

(* ------------------------------- Migration ------------------------------ *)

OldMessage(id, session, place, role, source) ==
  [id |-> id, session |-> session, place |-> place, role |-> role, source |-> source,
   key |-> NullColumn, line |-> NullColumn, event |-> NullColumn, normalized |-> NullColumn]
\* messages of two conversations of one channel, one of which another version
\* has written with its events
OldSets == {<<OldMessage("m1", s1, <<"c", p1>>, "user", e1), OldMessage("m2", s2, <<"c", p2>>, r2, e2),
              OldMessage("m3", "s", <<"c", p3>>, "assistant", NullColumn)>> :
              s1 \in {"s", "t"}, p1 \in {"a", "b"}, e1 \in {NullColumn, <<"e">>},
              s2 \in {"s", "t"}, p2 \in {"a", "b"}, r2 \in {"user", "assistant"}, e2 \in {NullColumn, <<"e">>},
              p3 \in {"a", "b"}}
OldDatabase(messages) ==
  [messages |-> messages, sessions |-> {}, lines |-> {}, events |-> {}, normalized |-> {}, types |-> {"personal"},
   processes |-> {[event |-> e, status |-> "processing", at |-> 1, row |-> n] : e \in {"e", "f"}, n \in 1..2}]
\* the same with one message already migrated, and repeated under its key
NewerDatabase(messages) ==
  LET first == Migrated(OldDatabase(<<OldMessage("m0", "s", <<"c", "a">>, "user", <<"f">>)>>))
      again == [OldMessage("m9", "s", <<"c", "a">>, "user", <<"g">>) EXCEPT !.key = <<"k">>]
  IN  [first EXCEPT !.messages = @ \o messages \o <<again>>]
\* A database that is opened gives every message an event of its own on the line
\* of its session, in the order of the messages, and every event of a channel
\* one canonical form; opening it again changes nothing.  It is refused only
\* where a session is in two conversations or a conversation in two sessions
\* (migrations.ts 206-556).
ASSUME MigrationSound ==
  \A messages \in OldSets, newer \in BOOLEAN :
    LET old == IF newer THEN NewerDatabase(messages) ELSE OldDatabase(messages)
        db == Migrated(old)
        rows == old.messages
        mixed == \E i, j \in DOMAIN rows : (rows[i].session = rows[j].session) # (rows[i].place = rows[j].place)
    IN  /\ IsRejected(db) <=> mixed
        /\ ~mixed =>
             /\ Migrated(db) = db
             /\ \A i \in DOMAIN rows : \E e \in db.events :
                  /\ e.id = db.messages[i].event /\ e.line = db.messages[i].line
                  /\ e.line = MainlineOf(rows[i].session)
             /\ Cardinality(db.events) = Len(rows)
             /\ \A i, j \in DOMAIN rows : i < j /\ rows[i].session = rows[j].session =>
                  (CHOOSE e \in db.events : e.id = db.messages[i].event).seq
                    < (CHOOSE e \in db.events : e.id = db.messages[j].event).seq
             /\ \A n, o \in db.normalized : n.channel = o.channel /\ n.source = o.source => n = o
             /\ \A p \in old.processes : Cardinality({q \in db.processes : q.event = p.event}) = 1

(* ------------------------------- Settings ------------------------------- *)

SmallModules ==
  {Empty, Object("m" :> Leaf(<<"off">>))}
    \union {Object("m" :> Object(f)) : f \in {("a" :> Leaf(<<"1">>)), ("a" :> Object("x" :> Leaf(<<"2">>))),
              ("a" :> Object("y" :> Leaf(<<"3">>)) @@ "b" :> Items(<<Leaf(<<"4">>)>>)), ("b" :> Leaf(<<"bad">>))}}
SmallDefinition == [id |-> "m", defaults |-> Object("a" :> Object("x" :> Leaf(<<"0">>)) @@ "c" :> Leaf(<<"0">>)),
                    version |-> 0, replaces |-> FALSE, bad |-> {<<"bad">>, <<"off">>}]

\* The value of a field is that of the last source that gives it one, or gives
\* one to something above it; what no source names keeps its default, and a
\* module is refused only for a value it ends up with (manager.ts 157-206,
\* merge.ts 13-25).
ASSUME PrecedenceSound ==
  \A s1, s2, s3 \in SmallModules :
    LET given == <<s1, s2, s3>>
        value == Computed(SmallDefinition, [i \in 1..3 |-> [modules |-> given[i]]], Missing)
        sets(i, p) == \E l \in Leaves(Field(given[i], "m")) : IsPrefix(l.path, p) \/ IsPrefix(p, l.path)
        last(p) == {i \in 1..3 : sets(i, p) /\ \A j \in i + 1..3 : ~sets(j, p)}
    IN  /\ value # Missing =>
             /\ \A l \in Leaves(value), i \in 1..3 :
                  (l.path # <<"b", "#">> /\ i \in last(l.path)) => l \in Leaves(Field(given[i], "m"))
             /\ \A l \in Leaves(SmallDefinition.defaults) : last(l.path) = {} => l \in Leaves(value)
        /\ value = Missing => \E i \in 1..3 : Leaves(Field(given[i], "m")) \intersect
                                 {[path |-> <<"b">>, value |-> <<"bad">>], [path |-> <<>>, value |-> <<"off">>]} # {}

EditedFiles == {Object("agent" :> Object(("token" :> Leaf(<<"key">>)) @@ ("list" :> Items(items)))) :
                  items \in {<<>>, <<Leaf(<<"1">>)>>, <<Leaf(<<"1">>), Object("token" :> Leaf(<<"key">>))>>}}
EditPaths == {<<"agent">>, <<"agent", "token">>, <<"agent", "list", "0">>, <<"agent", "list", "1">>,
              <<"agent", "list", "2">>, <<"agent", "list", "1", "name">>, <<"other", "name">>, <<"agent", "token", "x">>}
EditValues == {Missing, Leaf(<<"new">>), Object("name" :> Leaf(<<"new">>)), Leaf(Mask)}

\* An edit changes what lies at its path, or moves what follows it in a list,
\* and nothing else; the form shows no secret, and the mask it shows instead
\* never gets into the file (editor.ts 129-174).
ASSUME EditingSound ==
  \A file \in EditedFiles, path \in EditPaths, value \in EditValues :
    LET result == Edited(file, path, value)
        shown == Masked(file, FALSE)
    IN  /\ \A l \in Leaves(shown) : l.value # <<"key">>
        /\ {l.path : l \in Leaves(shown)} = {l.path : l \in Leaves(file)}
        /\ Edited(file, <<"agent">>, Field(shown, "agent")) = Missing
        /\ value = Leaf(Mask) => result = Missing
        /\ result # Missing =>
             /\ \A l \in Leaves(file) :
                  ~IsPrefix(path, l.path) /\ "#" \notin Range(l.path) => l \in Leaves(result)
             /\ \A l \in Leaves(value) : \E k \in Leaves(result) : k.value = l.value
             /\ value = Missing => \/ At(result, path) = Missing
                                   \/ "list" \in Range(path)
        /\ path = <<"agent", "token", "x">> => result = Missing

InDirectory(tree, dir) == [tree |-> tree, dir |-> dir]
PathOf(p) == Leaf(<<"relative", p>>)
DataAt(p) == Object("runtime" :> Object("dataDir" :> PathOf(p)))
LoadInputs ==
  {[framework |-> Empty, cli |-> c, env |-> [n \in e |-> "set"],
    deployment |-> InDirectory(Object("runtime" :> Object("dataDir" :> PathOf("d") @@ "mode" :> Leaf(<<"hosted">>))
                                        @@ "channels" :> Object("c" :> Object(ch))), "deploy"),
    files |-> fs, variables |-> vs] :
     c \in {Empty, DataAt("c")}, e \in SUBSET {"NAME"},
     ch \in {("adapter" :> Leaf(<<"onebot11">>) @@ "enabled" :> Leaf(<<"true">>)),
             ("adapter" :> Leaf(<<"env", "NAME", "qq">>)), ("adapter" :> Leaf(<<"env", "NAME", "none">>))},
     fs \in {<<>>, <<InDirectory(DataAt("u"), "user")>>, <<InDirectory(Leaf(<<"x">>), "user")>>},
     vs \in {<<>>, <<[path |-> <<"runtime", "dataDir">>, value |-> PathOf("v")]>>,
             <<[path |-> <<"runtime", "a">>, value |-> Leaf(<<"1">>)],
               [path |-> <<"runtime", "a", "b">>, value |-> Leaf(<<"1">>)]>>}}
LoadDefinitions == {[id |-> i, defaults |-> Empty, version |-> 0, replaces |-> FALSE, bad |-> {}] :
                      i \in {"runtime", "channels"}}

\* The directory of the data is that of the source nearest to the command, read
\* from the place of that source; a source that cannot be read, a placeholder
\* without a value and a channel the mode forbids refuse the whole
\* (loader.ts 37-85, 188-236; source.ts 43-79; schema.ts 37-55).
ASSUME LoadingSound ==
  \A input \in LoadInputs :
    LET config == LoadedConfig(LoadDefinitions, input)
        data == At(config, <<"runtime", "dataDir">>)
        channel == input.deployment.tree.fields["channels"].fields["c"].fields
    IN  /\ config = Missing <=> \/ channel["adapter"] = Leaf(<<"onebot11">>)
                                \/ (channel["adapter"] = Leaf(<<"env", "NAME", "none">>) /\ "NAME" \notin DOMAIN input.env)
                                \/ \E i \in DOMAIN input.files : input.files[i].tree.kind = "leaf"
                                \/ Len(input.variables) = 2
        /\ config # Missing =>
             /\ data = IF input.cli # Empty THEN Leaf(<<"deploy", "c">>)
                       ELSE IF input.variables # <<>> THEN Leaf(<<"deploy", "v">>)
                       ELSE IF input.files # <<>> THEN Leaf(<<"user", "u">>) ELSE Leaf(<<"deploy", "d">>)
             /\ At(config, <<"channels", "c", "adapter">>) \in {Leaf(<<"set">>), Leaf(<<"qq">>)}
             /\ RestartNeeded(config, config) = {}

Stored(names, current) == [current |-> current, profiles |-> [n \in names |-> [endpoint |-> n, token |-> Undefined]]]

\* A connection names a profile that exists and goes to what was asked for most
\* directly; switching and connecting keep a store that can be read again
\* (profile-store.ts 54-117).
ASSUME ConnectionSound ==
  \A names \in SUBSET {"p", "q"}, current \in {Undefined, "p", "q"}, asked \in {Undefined, "p", "q"},
     endpoint \in {Undefined, "here"}, env \in {Undefined, "there"} :
    LET store == Stored(names, current)
        found == Connection(store, [profile |-> asked, endpoint |-> endpoint, token |-> Undefined],
                            [endpoint |-> env, token |-> Undefined])
        switched == Switched(store, "p")
    IN  SoundStore(store) =>
          /\ found = Missing <=> (asked # Undefined /\ asked \notin names)
          /\ found # Missing =>
               found.endpoint = IF endpoint # Undefined THEN endpoint
                                ELSE IF asked # Undefined THEN asked
                                ELSE IF env # Undefined THEN env
                                ELSE IF current # Undefined THEN current ELSE "default"
          /\ "p" \in names => SoundStore(switched)
          /\ SoundStore(Connected(store, "q", [endpoint |-> "here", token |-> Undefined]))

(* ------------------------------- Channels ------------------------------- *)

CqTokens == {"&", "amp;", "#91;", "[", "]", ",", "CQ:", "qq="}
ShortTexts == UNION {[1..n -> CqTokens] : n \in 0..3}
NastyTexts == {<<>>, <<"x">>, <<"&", "#91;", "CQ:">>, <<"&", "amp;", "#44;">>,
               <<"[", "CQ:", "at", ",", "qq=", "all", "]">>, <<"]", ",", "&">>}
PlainSegments == {Segment("text", t) : t \in NastyTexts} \union {Segment("mention", <<"all">>)}
                   \union {Segment(k, t) : k \in {"mention", "reply"}, t \in NastyTexts \ {<<>>}}
                   \union {[Segment("image", NoText) EXCEPT !.also = t] : t \in NastyTexts \ {<<>>}}
PlainMessages == UNION {[1..n -> PlainSegments] : n \in 1..2}
                   \union {<<Segment("text", t), s>> : t \in ShortTexts, s \in {Segment("mention", <<"all">>)}}
\* as the other side reads it: a resource comes back as a file
AsRead(segments) ==
  TextsJoined([i \in DOMAIN segments |->
                 [segments[i] EXCEPT !.value = IF segments[i].type = "image" THEN Resource(segments[i]) ELSE @,
                                     !.also = NoText]])
PartOf(s) == [type |-> IF s.type = "mention" THEN "at" ELSE s.type, text |-> s.value, qq |-> s.value,
              id |-> s.value, url |-> s.also, file |-> s.value]

\* A message that is written as CQ text is read back as itself, so no text of
\* it becomes an instruction to the platform, and a platform that delivers the
\* same message as a list of parts says the same (message.ts 5-13, 44-262).
ASSUME CqTextSound ==
  \A segments \in PlainMessages :
    LET texts == SelectSeq(segments, LAMBDA s : s # Segment("text", <<>>))
    IN  /\ Renders(segments) => ParsedText(RenderedMessage(segments)) = AsRead(texts)
        /\ ParsedParts([i \in DOMAIN segments |-> PartOf(segments[i])]) = TextsJoined(segments)

SentSegments == {Segment("text", <<"x">>), Segment("text", <<>>), Segment("mention", <<"u">>), Segment("mention", NoText),
                 Segment("reply", <<"m">>), Segment("file", <<"f">>), Segment("image", NoText),
                 [Segment("reply", NoText) EXCEPT !.also = <<"e">>],
                 [Segment("rich-content", <<"x">>) EXCEPT !.also = <<"markdown">>], Segment("reference", <<"m">>)}
SentMessages ==
  [segments : UNION {[1..n -> SentSegments] : n \in 1..2} \union {<<Segment("file", <<"f">>), Segment("text", <<"x">>),
                                                                 Segment("file", <<"g">>)>>},
   required : BOOLEAN, replyTo : {NoText, <<"m">>}, event : {NoText, <<"e">>}, components : {FALSE},
   sequence : {Absent, "2"}]
CallReplies == [1..3 -> {r \in PlatformReplies : r.said \notin {"unnamed", "accepted"}}]
                 \union {[i \in 1..3 |-> r] : r \in PlatformReplies}

\* true of a receipt: what failed has left nothing with the platform and may be
\* tried again, what succeeded is there as a whole, anything else is uncertain
TrueReceipt(receipt, replies) ==
  LET done == {i \in 1..receipt.calls : replies[i].done}
  IN  /\ receipt.status \in {"failed", "unsupported"} => done = {}
      /\ receipt.status = "succeeded" => receipt.calls > 0 /\ done = 1..receipt.calls
      /\ receipt.status = "uncertain" => receipt.calls > 0

\* A send of several calls says the truth about them together, and a message
\* that the declared abilities accept is never unsupported, unless it requires
\* an answer to no message (napcat.ts 84-113, api.ts 26-66, adapter.ts 61-111).
ASSUME ReceiptsSound ==
  \A message \in {m \in SentMessages : m.sequence = Absent /\ m.event = NoText}, place \in Places,
     napcat \in BOOLEAN, replies \in CallReplies :
    LET receipt == OneBotSend(napcat, place, message, replies)
    IN  /\ TrueReceipt(receipt, replies)
        /\ Allowed(OneBotProfile(napcat), "message.send", place, message)
             /\ (message.required => message.replyTo # NoText) => receipt.status # "unsupported"
        /\ receipt.status = "succeeded" /\ WorthSending(message.segments) =>
             receipt.calls > Len(OfType(message, "file"))

\* The same of the official channel; what is sent says something and answers
\* one message or one event, never both (adapter.ts 130-204, send-message.ts).
ASSUME OfficialSound ==
  \A message \in SentMessages, place \in Places, token \in BOOLEAN, reply \in QqReplies :
    LET receipt == QqSend(place, message, token, reply)
        body == QqBody(message)
        replies == OfType(message, "reply")
    IN  /\ TrueReceipt(receipt, <<reply>>)
        /\ receipt.calls > 0 =>
             /\ body.content # <<>> /\ token
             /\ body.msg_id = NoText \/ body.event_id = NoText
             /\ (body.msg_id # NoText \/ body.event_id # NoText)
                  = (message.replyTo # NoText \/ message.event # NoText \/ replies # <<>>)
             /\ \A i \in DOMAIN message.segments :
                  LET s == message.segments[i]
                  IN  s.type \in {"text", "rich-content"} => IsPrefix(s.value, body.content)
                                                              \/ IsSuffix(s.value, body.content)

TokenAnswers == [ok : BOOLEAN, token : {Absent, "t"}, code : {0, 1}, ttl : {1000, 7200000}]
\* A token that is used is valid at that moment, and is asked for again only
\* when it has no more than a minute left (token-client.ts 28-69).
ASSUME TokensSound ==
  \A first, second \in TokenAnswers, then \in {0, 30000, 7139999, 7140000, 7200000} :
    LET one == AccessToken(RefusedToken, 5, first)
        two == AccessToken(one.keep, 5 + then, second)
    IN  /\ two.use.token # Absent => two.use.expires > 5 + then
        /\ two.asked <=> one.keep.expires <= 5 + then + TokenMargin
        /\ two.use.token = Absent => two.keep = one.keep

Policies2 == [private : {[mode |-> "mention", allowed |-> FALSE, bots |-> {}]}, group : RoutedPolicies]
OneBotPayloads ==
  [post : {"message", "message_sent", "notice"}, kind : ChatPlaces, user_id : {Absent, "ann", "bot"},
   author : {Absent, "ann"}, group : {Absent, "g"}, message_id : {Absent, "1"}, self : {Absent, "bot"},
   time : {Absent, "t"}, segments : {<<>>, <<Segment("mention", <<"bot">>)>>, <<Segment("mention", <<"all">>)>>,
                                     <<Segment("reply", <<"0">>), Segment("mention", NoText)>>}]

\* What the bot itself said is never answered, a mention of it is answered in
\* every mode but "never", and a message that is delivered again is known again
\* if the platform gave it an id or a time (normalize.ts 47-127).
ASSUME EventsSound ==
  \A payload \in OneBotPayloads, policies \in Policies2 :
    LET event == OneBotEvent("c", payload, "now")
        again == OneBotEvent("c", payload, "later")
        routed == Route(policies, event)
    IN  event # NotAnEvent =>
          /\ payload.post = "message_sent" => ~routed.responds
          /\ event.sender = event.self => ~routed.responds
          /\ (payload.post = "message" /\ event.sender # "bot" /\ event.self = "bot" /\ event.mentions = <<"bot">>
                /\ policies.group.mode # "never") => routed.responds
          /\ (SourceOf(event, "p") = SourceOf(again, "p")) <=> (payload.message_id # Absent \/ payload.time # Absent)

QqFields == {"user_openid", "author_openid", "member_openid", "author_id", "channel_id", "guild_id", "group_openid",
             "group_id", "event_id", "id", "msg_id", "message_reference", "referenced_message", "reply", "timestamp"}
QqData(present, listed) == [f \in QqFields |-> IF f \in present THEN f ELSE Absent] @@ ("mentions" :> listed)
QqPresent == SUBSET {"author_openid", "channel_id", "group_openid", "id", "msg_id", "reply", "timestamp"}

\* A message that the platform says is meant for the bot is answered in every
\* mode but "never", one in a group that names nobody only in mode "always",
\* and a message delivered again in another envelope is known again by its id
\* (channel-qq-official normalize.ts 11-236).
ASSUME OfficialEventsSound ==
  \A present \in QqPresent, type \in PrivateTypes \union GroupTypes \union GuildTypes \union {"OTHER"},
     listed \in {<<>>, <<"u">>, <<Absent>>}, policies \in Policies2 :
    LET payload(envelope) == [op |-> "0", t |-> type, id |-> envelope, d |-> QqData(present, listed)]
        event == QqEvent("c", payload("e1"), "now")
        again == QqEvent("c", payload("e2"), "later")
        routed == Route(policies, event)
    IN  /\ type = "OTHER" => event = NotAnEvent
        /\ event # NotAnEvent =>
             /\ type \in NamingTypes /\ policies.group.mode # "never" => routed.responds
             /\ (type = "GROUP_MESSAGE_CREATE" /\ listed = <<>>) =>
                  routed.responds = (policies.group.mode = "always")
             /\ (SourceOf(event, "p") = SourceOf(again, "p")) <=> ({"id", "msg_id"} \intersect present # {})

\* A callback reaches the runtime only with a signature that fits, and one that
\* waits is confirmed only when it was handled (qq-official-webhook.ts 28-114).
ASSUME CallbacksSound ==
  \A challenge, waits, handled, present, timed, wellFormed, matches \in BOOLEAN :
    LET signature == [present |-> present, timed |-> timed, wellFormed |-> wellFormed, matches |-> matches]
        answer == WebhookAnswer([challenge |-> challenge], signature, waits, handled)
    IN  /\ answer.dispatched => present /\ timed /\ wellFormed /\ matches /\ ~challenge
        /\ (answer.status = 200 /\ waits /\ ~challenge) => answer.dispatched /\ handled
        /\ answer.status = 401 => ~answer.dispatched

(* -------------------------------- Reading ------------------------------- *)

\* two platform events of one session, of which one may be on a branch
TakenEvents == [id : {"n1"}, source : {"s1"}, key : {"k1"}, session : {"s"}, place : {"p"}, type : {"message.created"},
                line : {"main", "side"}]
         \union [id : {"n2"}, source : {"s2"}, key : {"k2"}, session : {"s"}, place : {"p"}, type : {"message.created"},
                 line : {"main"}]
TakenInputs(events) == {IncomingMessage(e) : e \in events} \union {AssistantMessage(e) : e \in events}
FoldTable(Append1(_, _), inputs) == FoldLeft(LAMBDA table, i : Append1(table, i).table, <<>>, inputs)

\* Whatever is appended, in whichever order and however often, is on the
\* transcript once and is what the caller gets back, and both stores keep the
\* same: neither an answer nor a message of another line takes the place of a
\* message (runtime-context-store.ts 560-680, transcript/in-memory.ts 20-48).
ASSUME TranscriptSound ==
  \A line \in {"main", "side"} :
    LET inputs == TakenInputs({e \in TakenEvents : e.id = "n2" \/ e.line = line})
    IN  \A n \in 1..4 : \A taken \in [1..n -> inputs] :
          LET table == FoldTable(AppendMessage, taken)
          IN  /\ table = FoldTable(AppendInMemory, taken)
              /\ Range(table) = Range(taken) /\ Len(table) = Cardinality(Range(taken))
              /\ \A i \in 1..n : AppendMessage(table, taken[i]).message = taken[i]

\* all pages, of which each shows the table as it is by then
Walked(Read(_, _), reads) ==
  FoldLeft(LAMBDA w, i : IF w.done THEN w
                         ELSE LET page == Read(i, w.cursor)
                              IN  [seen |-> w.seen \o page.items, cursor |-> page.next, done |-> page.next = NoPage],
           [seen |-> <<>>, cursor |-> NoPage, done |-> FALSE], [i \in 1..reads |-> i])
Column(rows, name) == [i \in DOMAIN rows |-> rows[i][name]]
Down(n) == [i \in 1..n |-> n + 1 - i]
NoneTwice(sequence) == Cardinality(Range(sequence)) = Len(sequence)
RunRows(states) == [i \in DOMAIN states |-> [ordinal |-> i, status |-> states[i], started |-> 0]]
AnyRun == [statuses |-> {"running", "succeeded"}, since |-> 0, until |-> 0]
AnyAsset == [names |-> {"a"}, source |-> Lacking]
AssetRows(times) ==
  {[id |-> a, updated |-> times[a], name |-> "a", sources |-> {}, deleted |-> FALSE] : a \in DOMAIN times}

\* Who reads page after page sees every row once, in order, whatever happens to
\* the rows in between: runs that change and new ones that come, messages that
\* are deleted, assets that are changed; of a list in the order of changes only
\* what is changed meanwhile may be missed, and nothing is ever shown twice
\* (runtime-inspection.ts 97-127, sqlite-store.ts 193-241, asset-store.ts 87-130).
ASSUME PagesSound ==
  \A n \in 0..4, limit \in 1..3 :
    /\ \A before, after \in [1..n -> {"running", "succeeded"}] :
         LET RowsAt(i) == IF i = 1 THEN RunRows(before) ELSE RunRows(Append(after, "running"))
             whole == Walked(LAMBDA i, c : RunsPage(RowsAt(i), AnyRun, limit, c), n + 1)
             some == Walked(LAMBDA i, c : RunsPage(RowsAt(i), [AnyRun EXCEPT !.statuses = {"running"}], limit, c), n + 1)
         IN  /\ whole.done /\ Column(whole.seen, "ordinal") = Down(n)
             /\ some.done /\ NoneTwice(Column(some.seen, "ordinal"))
             /\ \A r \in 1..n : (before[r] = "running" /\ after[r] = "running") => r \in Range(Column(some.seen, "ordinal"))
    /\ \A early, late \in SUBSET (1..n) : early \subseteq late =>
         LET Table(i) == [m \in 1..n |-> [cursor |-> m, session |-> "s", deleted |-> m \in IF i = 1 THEN early ELSE late]]
             walk == Walked(LAMBDA i, c : TranscriptPage(Table(i), "s", limit, c), n + 1)
         IN  /\ walk.done /\ NoneTwice(Column(walk.seen, "cursor"))
             /\ \A i, j \in DOMAIN walk.seen : i < j => walk.seen[i].cursor > walk.seen[j].cursor
             /\ (1..n) \ late \subseteq Range(Column(walk.seen, "cursor"))
    /\ LET sessions == [s \in 1..n |-> [cursor |-> s]]
           walk == Walked(LAMBDA i, c : SessionsPage(sessions, limit, c), n + 1)
       IN  walk.done /\ walk.seen = Reverse(sessions)
    /\ LET walk == Walked(LAMBDA i, c : RefsPage(1..n, limit, c), n + 1)
       IN  walk.done /\ walk.seen = [r \in 1..n |-> r]
    /\ \A times \in [1..n -> 1..2], touched \in SUBSET (1..n) :
         LET Later(i) == IF i = 1 THEN times ELSE [a \in 1..n |-> IF a \in touched THEN 3 ELSE times[a]]
             walk == Walked(LAMBDA i, c : AssetsPage(AssetRows(Later(i)), AnyAsset, limit, c), n + 1)
         IN  /\ walk.done /\ NoneTwice(Column(walk.seen, "id"))
             /\ (1..n) \ touched \subseteq Range(Column(walk.seen, "id"))
             /\ \A i, j \in DOMAIN walk.seen : i < j => Behind(walk.seen[j], walk.seen[i])

\* Reading a line backwards from an event shows all that came before it
\* (conversation-store.ts 536-572).
ASSUME LinesSound ==
  \A n \in 0..4, limit \in 1..3, after \in 0..2, types \in SUBSET {"user", "system"} : \A kinds \in [1..n -> {"user", "system"}] :
    LET log == [e \in 1..n |-> [sequence |-> e, type |-> kinds[e]]]
        Back(i, c) ==
          LET items == ListedEvents(log, [after |-> <<after>>, before |-> c, types |-> types, limit |-> limit])
          IN  [items |-> Reverse(items), next |-> IF items = <<>> THEN NoPage ELSE <<Head(items).sequence>>]
        walk == Walked(Back, n + 1)
    IN  walk.done /\ Reverse(walk.seen) = SelectSeq(log, LAMBDA e : e.sequence > after /\ e.type \in types)

\* events that name others, or themselves, as what they came from
TracedEvent == [from : 0..2, cause : 0..2, correlation : {Lacking, "c"}, task : {Lacking}, normalized : {Lacking, "n"}]

\* The chain of an event leads from a first cause to it without a gap, and what
\* is related to it is the smallest set that is closed under the links of its
\* members (conversation/trace.ts 6-50, conversation-store.ts 1329-1346).
ASSUME TracesSound ==
  \A events \in [1..3 -> TracedEvent] : \A target \in {3} :
    LET chain == CausationChain(events, target)
        component == Related(events, target) \union Range(chain)
        Closed(found) == \A n \in (1..3) \ found : ~LinkedTo(events, found, n)
    IN  /\ Last(chain) = target /\ NoneTwice(chain)
        /\ \A i \in DOMAIN chain : i > 1 => CauseOf(events[chain[i]]) = chain[i - 1]
        /\ CauseOf(events[Head(chain)]) \in {0} \union Range(chain)
        /\ Closed(component)
        /\ \A n \in (1..3) \ component, m \in component :
             m \notin {events[n].from, events[n].cause} /\ n \notin {events[m].from, events[m].cause}
        /\ \A found \in SUBSET (component \ {target}) : ~Closed(found \union {target}) \/ found \union {target} = component

\* commits 1..4, each with parents among those before it
Histories == {commits \in [1..4 -> {<<>>, <<1>>, <<2>>, <<3>>, <<1, 2>>, <<3, 1>>}] :
                \A c \in 1..4 : \A p \in Range(commits[c]) : p < c}
Reached(commits, heads) ==
  FoldLeft(LAMBDA found, n : found \union UNION {Range(commits[c]) : c \in found}, heads, <<1, 2, 3, 4>>)

\* A graph that is cut off says so, shows nothing that is not reachable, and can
\* be completed from its boundary (runtime-inspection.ts 135-173).
ASSUME GraphsSound ==
  \A commits \in Histories, refs \in {<<4>>, <<3, 4>>, <<2, 4, 2>>}, limit \in 1..4 :
    LET graph == SessionGraph(commits, refs, <<>>, limit)
    IN  /\ graph.nodes \subseteq Reached(commits, Range(refs))
        /\ graph.truncated <=> graph.nodes # Reached(commits, Range(refs))
        /\ Reached(commits, graph.boundary) \union graph.nodes = Reached(commits, Range(refs))
        /\ Cardinality(graph.nodes) <= limit /\ (graph.truncated => Cardinality(graph.nodes) = limit)
        /\ \A e \in graph.edges : e[2] \in graph.nodes /\ (e[1] \in graph.nodes \/ e[1] \in graph.boundary)
=============================================================================
