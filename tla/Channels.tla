------------------------------ MODULE Channels ------------------------------
(* What the channel adapters compute: how a message becomes CQ text and back *)
(* (channel-onebot11 message.ts), which actions a channel declares and which *)
(* answer a call to the platform leads to (channel action-executor.ts;       *)
(* channel-onebot11 api.ts, napcat.ts; channel-qq-official adapter.ts,       *)
(* token-client.ts), and which event a payload is (normalize.ts of both;     *)
(* apps/runtime qq-official-webhook.ts).                                     *)
(*                                                                         *)
(* A text is a sequence of tokens: the characters that matter to the         *)
(* encoding are tokens of their own.  An absent text is NoText.              *)
EXTENDS Routing, TLC

NoText == <<"undefined">>
\* the first that is present
FirstOf(values) == LET present == SelectSeq(values, LAMBDA v : v # Absent)
                   IN  IF present = <<>> THEN Absent ELSE Head(present)

\* a piece of a message; also: the url of an image, the event of a reply, the
\* format of rich content
Segment(type, value) == [type |-> type, value |-> value, also |-> NoText]
MentionTarget(s) == IF s.value = NoText THEN "unknown" ELSE IF s.value = <<"all">> THEN "all" ELSE "user"
Has(message, type) == \E i \in DOMAIN message.segments : message.segments[i].type = type
OfType(message, type) == SelectSeq(message.segments, LAMBDA s : s.type = type)

(* ------------------------------- CQ texts ------------------------------- *)

EntityOf == ("&" :> "amp;") @@ ("[" :> "#91;") @@ ("]" :> "#93;") @@ ("," :> "#44;")
TextOrder == <<"&", "[", "]">>
ValueOrder == <<"&", "[", "]", ",">>

Escape(s, c) == FlattenSeq([i \in DOMAIN s |-> IF s[i] = c THEN <<"&", EntityOf[c]>> ELSE <<s[i]>>])
Escaped(s, order) == FoldLeft(Escape, s, order)

\* an entity is "&" and its name, in two tokens
Unescape(s, c) ==
  LET entity(i) == i \in DOMAIN s /\ i + 1 \in DOMAIN s /\ s[i] = "&" /\ s[i + 1] = EntityOf[c]
  IN  FlattenSeq([i \in DOMAIN s |-> IF entity(i) THEN <<>> ELSE IF entity(i - 1) THEN <<c>> ELSE <<s[i]>>])
Unescaped(s, order) == FoldLeft(Unescape, s, Reverse(order))

Code(type, key, value) == <<"[", "CQ:", type, ",", key>> \o Escaped(value, ValueOrder) \o <<"]">>
Resource(s) == IF s.also # NoText THEN s.also ELSE s.value

\* renderSegment; a mention, a reply or an image without its value throws
Rendered(s) ==
  CASE s.type = "text" -> Escaped(s.value, TextOrder)
    [] s.type = "mention" -> Code("at", "qq=", s.value)
    [] s.type = "reply" -> Code("reply", "id=", s.value)
    [] s.type = "image" -> Code("image", "file=", Resource(s))
    [] OTHER -> <<>>
RenderedMessage(segments) == FlattenSeq([i \in DOMAIN segments |-> Rendered(segments[i])])
Renders(segments) ==
  /\ \A i \in DOMAIN segments : segments[i].type \in {"mention", "reply", "image"} => Resource(segments[i]) # NoText
  /\ RenderedMessage(segments) # <<>>

\* what is sent: the message behind the reply it requires
SentText(message) ==
  (IF message.required /\ message.replyTo # NoText /\ ~Has(message, "reply")
     THEN Code("reply", "id=", message.replyTo) ELSE <<>>) \o RenderedMessage(message.segments)

\* the first of the tokens from i on
FirstFrom(s, i, tokens) ==
  LET found == {k \in i..Len(s) : s[k] \in tokens} IN IF found = {} THEN 0 ELSE Min(found)

\* where the code that starts at i ends
CodeEnd(s, i) ==
  IF i + 2 \in DOMAIN s /\ s[i] = "[" /\ s[i + 1] = "CQ:" /\ s[i + 2] \notin {",", "]"}
    THEN FirstFrom(s, i + 2, {"]"}) ELSE 0

\* the last parameter of that name
Parameter(s, key) ==
  LET at == {i \in 2..Len(s) : s[i] = key /\ s[i - 1] = ","}
      params == s \o <<",">>
  IN  IF at = {} THEN NoText
      ELSE Unescaped(SubSeq(s, Max(at) + 1, FirstFrom(params, Max(at), {","}) - 1), ValueOrder)

Known(type, qq, id, url, file) ==
  CASE type = "at" -> Segment("mention", qq)
    [] type = "reply" -> Segment("reply", id)
    [] type = "image" -> [Segment("image", file) EXCEPT !.also = url]

CodeSegment(code) ==
  LET body == SubSeq(code, 3, Len(code) - 1)
      type == SubSeq(body, 1, FirstFrom(body \o <<",">>, 1, {","}) - 1)
  IN  IF type \in {<<"at">>, <<"reply">>, <<"image">>}
        THEN Known(Head(type), Parameter(body, "qq="), Parameter(body, "id="), Parameter(body, "url="),
                   Parameter(body, "file="))
        ELSE Segment("text", code)

TextBetween(s) == IF s = <<>> THEN <<>> ELSE <<Segment("text", Unescaped(s, TextOrder))>>
RECURSIVE Pieces(_)
Pieces(s) ==
  LET starts == {i \in DOMAIN s : CodeEnd(s, i) # 0}
      first == Min(starts)
      end == CodeEnd(s, first)
  IN  IF starts = {} THEN TextBetween(s)
      ELSE TextBetween(SubSeq(s, 1, first - 1)) \o <<CodeSegment(SubSeq(s, first, end))>>
             \o Pieces(SubSeq(s, end + 1, Len(s)))

JoinText(merged, s) ==
  IF s.type = "text" /\ merged # <<>> /\ Last(merged).type = "text"
    THEN Front(merged) \o <<Segment("text", Last(merged).value \o s.value)>> ELSE Append(merged, s)
TextsJoined(segments) == FoldLeft(JoinText, <<>>, segments)

ParsedText(s) == TextsJoined(Pieces(s))

\* the same message as a list of parts, each a type and its data
PartSegment(part) ==
  CASE part.type = "text" -> Segment("text", part.text)
    [] part.type \in {"at", "reply", "image"} -> Known(part.type, part.qq, part.id, part.url, part.file)
    [] OTHER -> Segment("unknown", <<part.type>>)
ParsedParts(parts) ==
  IF parts = <<>> THEN <<Segment("text", <<>>)>>
  ELSE TextsJoined([i \in DOMAIN parts |-> PartSegment(parts[i])])

(* -------------------------- declared abilities -------------------------- *)

Places == {"private", "group", "channel"}
MessageTypes == {"text", "mention", "reply", "image", "file", "reference", "rich-content", "audio", "video"}
Unlimited == [places |-> Places, types |-> MessageTypes, mentions |-> {"user", "all", "unknown"},
              replies |-> {"message", "event"}, components |-> TRUE, formats |-> {"markdown", "html"}]
Able(limits, perPlace) == [limits |-> limits, perPlace |-> perPlace @@ [p \in Places |-> Unlimited]]

\* a reply names a message, an event or neither
AcceptsReply(limits, message, event) ==
  message # NoText \/ event # NoText => (IF message # NoText THEN "message" ELSE "event") \in limits.replies

AcceptsMessage(limits, place, message) ==
  /\ place \in limits.places
  /\ message.required => AcceptsReply(limits, message.replyTo, message.event)
  /\ message.components => limits.components
  /\ \A i \in DOMAIN message.segments :
       LET s == message.segments[i]
       IN  /\ s.type \in limits.types
           /\ s.type = "rich-content" => s.also[1] \in limits.formats
           /\ s.type = "mention" => MentionTarget(s) \in limits.mentions
           /\ s.type = "reply" => AcceptsReply(limits, s.value, s.also)

\* what executeChannelAction asks of the profile before the adapter is called
Allowed(profile, action, place, message) ==
  LET accepts(c) == AcceptsMessage(profile[c].limits, place, message)
                      /\ AcceptsMessage(profile[c].perPlace[place], place, message)
  IN  /\ action \in DOMAIN profile
      /\ accepts(action)
      /\ Has(message, "image") \/ Has(message, "audio") \/ Has(message, "video") =>
           "message.media" \in DOMAIN profile /\ accepts("message.media")

OneBotSegments == {"text", "mention", "reply", "image"}
ChatPlaces == {"private", "group"}
InPlaces(places) == Able([Unlimited EXCEPT !.places = places], <<>>)
OneBotProfile(napcat) ==
  LET common ==
        [a \in {"message.receive", "message.delete", "message.get"} |-> InPlaces(ChatPlaces)]
          @@ ("message.media" :> Able(Unlimited, <<>>))
          @@ ("message.send" :>
                Able([Unlimited EXCEPT !.places = ChatPlaces, !.components = FALSE, !.replies = {"message"},
                        !.types = OneBotSegments \union (IF napcat THEN {"file"} ELSE {})],
                     ("private" :> [Unlimited EXCEPT !.mentions = {}])
                       @@ ("group" :> [Unlimited EXCEPT !.mentions = {"user", "all"}])))
      files == ("file.upload" :> InPlaces(ChatPlaces)) @@ [a \in {"file.get", "file.list"} |-> InPlaces({"group"})]
  IN  IF napcat THEN files @@ common ELSE common

QqProfile(webhook) ==
  LET chat == [Unlimited EXCEPT !.types = {"text", "reply", "reference", "rich-content"}]
      common ==
        ("message.send" :>
           Able([Unlimited EXCEPT !.types = {"text", "mention", "reply", "reference", "rich-content"},
                   !.formats = {"markdown"}, !.components = FALSE],
                ("private" :> chat) @@ ("group" :> chat) @@ ("channel" :> [Unlimited EXCEPT !.mentions = {"user"}])))
          @@ ("message.delete" :> Able(Unlimited, <<>>))
  IN  IF webhook THEN common @@ ("message.receive" :> Able(Unlimited, <<>>)) ELSE common

(* -------------------------------- sending ------------------------------- *)

\* what a call leads to: said is the answer, done whether the platform did it
PlatformReplies ==
  {[said |-> "ok", done |-> TRUE], [said |-> "unnamed", done |-> TRUE], [said |-> "refused", done |-> FALSE]}
    \union [said : {"accepted", "lost"}, done : BOOLEAN]
Receipt(status, calls) == [status |-> status, calls |-> calls]

StandardSupports(place, message) ==
  /\ place # "channel"
  /\ ~message.components
  /\ message.required => message.replyTo # NoText
  /\ \A i \in DOMAIN message.segments : message.segments[i].type \in OneBotSegments

\* the answer to one call: only a named message is a success
SendStatus(said) == CASE said = "ok" -> "succeeded" [] said = "refused" -> "failed" [] OTHER -> "uncertain"
\* of a call that names nothing
PlainStatus(said) == IF said = "unnamed" THEN "succeeded" ELSE SendStatus(said)

StandardSend(place, message, reply) ==
  IF ~StandardSupports(place, message) THEN Receipt("unsupported", 0)
  ELSE IF ~Renders(message.segments) THEN Receipt("failed", 0)
  ELSE Receipt(SendStatus(reply.said), 1)

WorthSending(segments) ==
  \E i \in DOMAIN segments : segments[i].type = "image" \/ (segments[i].type = "text" /\ segments[i].value # <<>>)

\* one upload after the other, then the rest of the message; replies are those
\* to the calls in their order
NapCatSend(place, message, replies) ==
  LET files == OfType(message, "file")
      rest == SelectSeq(message.segments, LAMBDA s : s.type # "file")
      stops == {i \in DOMAIN files : PlainStatus(replies[i].said) # "succeeded"}
      at == Min(stops)
      last == StandardSend(place, [message EXCEPT !.segments = rest], replies[Len(files) + 1])
  IN  IF files = <<>> THEN StandardSend(place, message, replies[1])
      ELSE IF place = "channel" THEN Receipt("unsupported", 0)
      ELSE IF \E i \in DOMAIN files : files[i].value = NoText THEN Receipt("failed", 0)
      ELSE IF stops # {} THEN
        Receipt(IF at = 1 /\ replies[1].said = "refused" THEN "failed" ELSE "uncertain", at)
      ELSE IF ~WorthSending(rest) THEN Receipt("succeeded", Len(files))
      ELSE Receipt(IF last.status = "succeeded" THEN "succeeded" ELSE "uncertain", Len(files) + last.calls)

OneBotSend(napcat, place, message, replies) ==
  IF napcat THEN NapCatSend(place, message, replies) ELSE StandardSend(place, message, replies[1])

\* uploadFile: size in bytes, named well or not
MaxFileSize == 10485760
UploadFile(place, named, size, reply) ==
  IF place = "channel" THEN Receipt("unsupported", 0)
  ELSE IF ~named \/ size = 0 \/ size > MaxFileSize THEN Receipt("failed", 0)
  ELSE Receipt(PlainStatus(reply.said), 1)

DeleteMessage(place, id, reply) ==
  IF place = "channel" THEN Receipt("unsupported", 0)
  ELSE IF id = NoText THEN Receipt("failed", 0) ELSE Receipt(PlainStatus(reply.said), 1)

\* getMessage, readFiles: a reading is never uncertain
GetMessage(place, id, group, reply, found) ==
  IF place = "channel" THEN "unsupported"
  ELSE IF id # NoText /\ reply.said \in {"ok", "unnamed"} /\ found.event # Absent /\ found.kind = place
            /\ (place = "group" => found.group = group)
    THEN "succeeded" ELSE "failed"
ReadFiles(action, place, reply, wellFormed) ==
  IF place # "group" \/ action = "file.delete" THEN "unsupported"
  ELSE IF reply.said \in {"ok", "unnamed"} /\ wellFormed THEN "succeeded" ELSE "failed"

\* executeAction of the OneBot adapter, what it has no call for
Mapped(napcat, action) ==
  action \in {"message.send", "message.delete", "message.get"}
    \/ (napcat /\ action \in {"file.upload", "file.get", "file.list"})

(* ------------------------------ QQ official ----------------------------- *)

\* renderTextMessage, with the mentions written out
QqText(message) ==
  FlattenSeq([i \in DOMAIN message.segments |->
    LET s == message.segments[i]
    IN  IF s.type = "text" THEN s.value
        ELSE IF s.type = "mention" /\ MentionTarget(s) = "user" THEN <<"<@">> \o s.value \o <<">">> ELSE <<>>])

QqSupports(place, message) ==
  LET markdown == Has(message, "rich-content")
      few(type) == Len(OfType(message, type)) <= 1
  IN  /\ ~message.components
      /\ few("reply") /\ few("reference") /\ few("rich-content")
      /\ message.sequence # "bad"
      /\ \A i \in DOMAIN message.segments :
           LET s == message.segments[i]
           IN  \/ s.type = "text" /\ ~markdown
               \/ s.type = "reply" /\ (s.value # NoText \/ s.also # NoText)
               \/ s.type = "reference" /\ s.value # NoText
               \/ s.type = "mention" /\ ~markdown /\ place = "channel" /\ MentionTarget(s) = "user"
               \/ s.type = "rich-content" /\ s.also = <<"markdown">> /\ s.value # <<>>

\* createQqOfficialSendBody; the answer to an event gets a number that the
\* caller gave it, else 1
QqBody(message) ==
  LET replies == OfType(message, "reply")
      part == IF replies = <<>> THEN Segment("reply", NoText) ELSE Head(replies)
      references == OfType(message, "reference")
      markdown == OfType(message, "rich-content")
      answered == IF message.replyTo # NoText THEN message.replyTo ELSE part.value
  IN  [content |-> IF markdown # <<>> THEN Head(markdown).value ELSE QqText(message),
       msg_id |-> answered,
       event_id |-> IF answered # NoText THEN NoText
                    ELSE IF message.event # NoText THEN message.event ELSE part.also,
       msg_seq |-> FirstOf(<<message.sequence, "1">>),
       reference |-> IF references = <<>> THEN NoText ELSE Head(references).value]

\* answers over HTTP: "unread" is a good status with a body that is not read
QqReplies == PlatformReplies \union [said : {"unread"}, done : BOOLEAN]
QqSend(place, message, token, reply) ==
  IF ~Has(message, "rich-content") /\ QqText(message) = <<>> THEN Receipt("failed", 0)
  ELSE IF ~QqSupports(place, message) THEN Receipt("unsupported", 0)
  ELSE IF ~token THEN Receipt("failed", 0)
  ELSE Receipt(SendStatus(reply.said), 1)

\* an empty answer confirms a deletion too
QqDelete(id, token, reply) ==
  IF id = NoText \/ ~token THEN Receipt("failed", 0) ELSE Receipt(PlainStatus(reply.said), 1)

QqMapped(action) == action \in {"message.send", "message.delete"}

\* getAccessToken: the cache is [token, expires] or has no token; answer is what
\* the token service says, with a time to live in milliseconds
TokenMargin == 60000
RefusedToken == [token |-> Absent, expires |-> 0]
Renewed(answer, now) ==
  IF answer.ok /\ answer.token # Absent /\ answer.code = 0 /\ answer.ttl > 0
    THEN [token |-> answer.token, expires |-> now + answer.ttl] ELSE RefusedToken
AccessToken(cached, now, answer) ==
  IF cached.token # Absent /\ cached.expires > now + TokenMargin THEN [use |-> cached, keep |-> cached, asked |-> FALSE]
  ELSE LET new == Renewed(answer, now)
       IN  [use |-> new, keep |-> IF new.token # Absent THEN new ELSE cached, asked |-> TRUE]

(* -------------------------------- payloads ------------------------------ *)

NotAnEvent == [type |-> "none"]

MentionsOf(segments) ==
  LET mentions == SelectSeq(segments, LAMBDA s : s.type = "mention")
  IN  [i \in DOMAIN mentions |-> IF mentions[i].value = NoText THEN "unknown" ELSE mentions[i].value[1]]

\* the event of a channel for the runtime; a clock reading stands for an id
ChannelEvent(channel, origin, kind, conversation, sender, id, at, segments) ==
  [platform |-> "qq", channel |-> channel, type |-> "message.created", origin |-> origin, kind |-> kind,
   conversation |-> conversation, sender |-> sender, messageId |-> id, eventId |-> id, clocked |-> FALSE,
   self |-> Absent, replyTo |-> FALSE, replied |-> Absent, capability |-> "yes", named |-> FALSE,
   message |-> TRUE, mentions |-> MentionsOf(segments), text |-> {}, receivedAt |-> at, hint |-> {}]

\* normalizeOneBot11Event at the clock reading now
OneBotEvent(channel, payload, now) ==
  LET sender == FirstOf(<<payload.user_id, payload.author>>)
      conversation == IF payload.kind = "private" THEN sender ELSE payload.group
      event == ChannelEvent(channel, IF payload.post = "message_sent" THEN "outgoing" ELSE "incoming",
                            payload.kind, conversation, sender, payload.message_id,
                            FirstOf(<<payload.time, now>>), payload.segments)
      replies == SelectSeq(payload.segments, LAMBDA s : s.type = "reply")
  IN  IF payload.post \notin {"message", "message_sent"} \/ payload.kind \notin ChatPlaces
           \/ sender = Absent \/ conversation = Absent
        THEN NotAnEvent
      ELSE [event EXCEPT !.self = payload.self, !.clocked = payload.message_id = Absent,
                         !.replyTo = replies # <<>> /\ Head(replies).value # NoText]

\* normalizeOneBot11FileNotice; a time that is no time refuses the notice
FileNotice(payload) ==
  IF payload.post = "notice" /\ payload.notice = "group_upload"
       /\ Absent \notin {payload.group, payload.file, payload.name} /\ payload.time # "bad"
    THEN [group |-> payload.group, file |-> payload.file, name |-> payload.name,
          sender |-> payload.user_id, event |-> FirstOf(<<payload.message_id, payload.id>>)]
    ELSE NotAnEvent

PrivateTypes == {"C2C_MESSAGE_CREATE", "DIRECT_MESSAGE_CREATE"}
GroupTypes == {"GROUP_AT_MESSAGE_CREATE", "GROUP_MESSAGE_CREATE"}
GuildTypes == {"AT_MESSAGE_CREATE", "MESSAGE_CREATE"}
NamingTypes == {"GROUP_AT_MESSAGE_CREATE", "AT_MESSAGE_CREATE"}

QqConversation(type, d) ==
  CASE type \in PrivateTypes -> <<"private", FirstOf(<<d.user_openid, d.author_openid, d.channel_id, d.guild_id>>)>>
    [] type \in GroupTypes -> <<"group", FirstOf(<<d.group_openid, d.group_id>>)>>
    [] type \in GuildTypes -> <<"channel", FirstOf(<<d.channel_id, d.guild_id>>)>>
    [] OTHER -> <<"none", Absent>>

\* what is listed, else somebody unknown where the platform says the bot is meant
QqMentions(type, listed) ==
  IF listed # <<>> THEN [i \in DOMAIN listed |->
                               Segment("mention", IF listed[i] = Absent THEN NoText ELSE <<listed[i]>>)]
  ELSE IF type \in NamingTypes THEN <<Segment("mention", NoText)>> ELSE <<>>

\* the message it answers, in the first of three fields that names one
QqReplyTarget(d) == FirstOf(<<d.message_reference, d.referenced_message, d.reply>>)

\* adapterCapabilitiesForEvent: whether a reply may be one to the bot, whether
\* the platform tells of mentions, and how long it takes an answer, in seconds
QqAbilities(type, reply) ==
  [capability |-> IF reply = Absent THEN "no" ELSE "conditional",
   hint |-> type \in PrivateTypes \union NamingTypes,
   window |-> CASE type \in PrivateTypes -> 3600 [] type \in GroupTypes -> 300 [] OTHER -> 0]

\* normalizeQqOfficialDispatch
QqEvent(channel, payload, now) ==
  LET d == payload.d
      place == QqConversation(payload.t, d)
      sender == FirstOf(<<d.author_openid, d.member_openid, d.author_id, d.user_openid, "unknown">>)
      id == FirstOf(<<payload.id, d.event_id, d.id>>)
      reply == QqReplyTarget(d)
      event == ChannelEvent(channel, "incoming", place[1], place[2], sender, FirstOf(<<d.msg_id, d.id>>),
                            FirstOf(<<d.timestamp, now>>), QqMentions(payload.t, d.mentions))
  IN  IF payload.op \notin {Absent, "0"} \/ place[2] = Absent THEN NotAnEvent
      ELSE [event EXCEPT !.eventId = id, !.clocked = id = Absent, !.replyTo = reply # Absent,
                         !.named = payload.t \in NamingTypes,
                         !.capability = QqAbilities(payload.t, reply).capability]

\* attachmentSegmentFromUnknown: the kind of an attachment by its content type
AttachmentType(contentType) ==
  IF contentType \in {"image", "audio", "video"} THEN contentType
  ELSE IF contentType = Absent THEN "unknown" ELSE "file"

\* handleQqOfficialWebhook: a challenge is answered before any signature is asked
\* for, and a dispatch may be confirmed before it has run
Signed(signature) == signature.present /\ signature.timed /\ signature.wellFormed /\ signature.matches
WebhookAnswer(payload, signature, waits, handled) ==
  CASE payload.challenge -> [status |-> 200, dispatched |-> FALSE]
    [] ~payload.challenge /\ ~Signed(signature) -> [status |-> 401, dispatched |-> FALSE]
    [] OTHER -> [status |-> IF waits /\ ~handled THEN 500 ELSE 200, dispatched |-> TRUE]
=============================================================================
