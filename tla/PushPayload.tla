----------------------------- MODULE PushPayload -----------------------------
(***************************************************************************)
(* What a push says: the fan-out of a message or a ring to the recipients' *)
(* phones splits them by their owners' privacy settings, builds one        *)
(* payload for each group and sends it by the transport each phone has.    *)
(* Settings are changed meanwhile.                                         *)
(*                                                                         *)
(*   fan-out   start -> load settings -> send to one group after another   *)
(*                                                                         *)
(* Sizes are counted in units of a payload's budget: a name can take up    *)
(* several once its characters are escaped.                                *)
(***************************************************************************)
EXTENDS Naturals, FiniteSets

CONSTANTS Recipients, Phones, OwnerOf,
          Transport,        \* phone -> "fcm", "web", "voip" or "none"
          Renderers,        \* phones that can draw a preview and are traced to an MLS device
          NameSizes,        \* sizes of the names senders have; 0 for no name
          CiphertextSizes,
          MaxPayload, MaxPreviewCiphertext,
          MaxEdits          \* bound on changes of settings

PushPayloadAssumption ==
    /\ OwnerOf \in [Phones -> Recipients]
    /\ Transport \in [Phones -> {"fcm", "web", "voip", "none"}]
    /\ CiphertextSizes \subseteq Nat /\ MaxPayload \in Nat /\ MaxPreviewCiphertext \in Nat
    /\ MaxEdits \in Nat
    \* A name is at most maxFieldLen or maxPeerText bytes, and escaping makes six of one: a
    \* payload has room for it twice.
    /\ NameSizes \subseteq Nat /\ \A n \in NameSizes \cup {1} : n + n <= MaxPayload

VARIABLES setting,    \* recipient -> privacy setting stored; "" on a legacy account
          fan,        \* where the fan-out is: its notification, the groups still to send to
          told,       \* phone -> the payload sent to it, or Untold
          dead,       \* phones whose row was pruned
          edits,
          sends,      \* ghost: phone -> sends attempted
          had         \* ghost: recipient -> the settings it has had since the fan-out began

ppVars == <<setting, fan, told, dead, edits, sends, had>>

Settings == {"", "generic", "sender", "preview"}
Untold == [transport |-> "none"]

\* A message, or a ring, which carries no body and no sender id.
ChatNotification ==
    [kind : {"message"}, nameSize : NameSizes, avatar : BOOLEAN, senderID : {TRUE},
     content : {"application", "other"}, ciphertext : CiphertextSizes, groups : {0, 1}]
    \cup
    [kind : {"call", "call-cancel"}, nameSize : NameSizes, avatar : BOOLEAN, senderID : {FALSE},
     content : {"other"}, ciphertext : {0}, groups : {0}]

PpInit ==
    /\ setting \in [Recipients -> Settings]
    /\ fan = [pc |-> "idle"]
    /\ told = [d \in Phones |-> Untold] /\ dead = {} /\ edits = 0
    /\ sends = [d \in Phones |-> 0]
    /\ had = [u \in Recipients |-> {}]

(***************************************************************************)
(* The payload                                                             *)
(***************************************************************************)
Effective(s) == IF s = "" THEN "sender" ELSE s
ShowsSender(s) == Effective(s) # "generic"
ShowsPreview(s) == Effective(s) = "preview"

identifies(g) == ShowsSender(g.privacy)
displayName(n, g) == IF identifies(g) /\ n.nameSize > 0 THEN "name" ELSE "fallback"
Length(n, title) == IF title = "name" THEN n.nameSize ELSE 1

\* Every condition on a preview, in one place.
previewCiphertext(n, g) ==
    /\ ShowsPreview(g.privacy) /\ g.renders
    /\ n.kind = "message" /\ n.content = "application"
    /\ n.ciphertext \in 1 .. MaxPreviewCiphertext

\* What is looked up for a preview, and cut to the newest.
previewGroupIDs(n, g) == IF ShowsPreview(g.privacy) /\ g.renders THEN n.groups ELSE 0

PayloadSize(n, p) ==
    Length(n, p.title)
    + (IF {"title", "callerName"} \cap p.data # {} THEN Length(n, p.title) ELSE 0)
    + (IF "ciphertext" \in p.data THEN n.ciphertext ELSE 0)
    + (IF "groupIds" \in p.data THEN n.groups ELSE 0)
payloadFits(n, p) == PayloadSize(n, p) <= MaxPayload

\* Built with the preview, weighed, and built without it if that is too heavy.
chatNotificationPayload(n, g) ==
    LET who == (IF identifies(g) /\ n.avatar THEN {"senderAvatar"} ELSE {})
               \cup (IF identifies(g) /\ n.senderID THEN {"senderId"} ELSE {})
        preview == {"ciphertext", "title", "body"}
                   \cup (IF previewGroupIDs(n, g) > 0 THEN {"groupIds"} ELSE {})
        call == IF n.kind = "message" THEN {} ELSE {"kind", "callId", "callerName"}
        With(data, drawn) ==
            [title |-> displayName(n, g), icon |-> identifies(g) /\ n.avatar, data |-> data,
             urgent |-> n.kind # "message", clientRendered |-> drawn]
        full == With(who \cup preview, TRUE)
    IN  IF previewCiphertext(n, g) /\ payloadFits(n, full)
        THEN full ELSE With(who \cup call, FALSE)

\* The PushKit path builds its own body.
\* Mutant: from the sender's name, without asking whether it may be shown.
VoipPayloadNaming(n, g) ==
    [title |-> IF n.nameSize > 0 THEN "name" ELSE "fallback", icon |-> FALSE,
     data |-> {"kind", "callId", "callerName"}, urgent |-> TRUE, clientRendered |-> FALSE]
voipPayloadFor(n, g) ==
    [title |-> displayName(n, g), icon |-> FALSE,
     data |-> {"kind", "callId", "callerName"}, urgent |-> TRUE, clientRendered |-> FALSE]

\* buildMessage: whether the system tray draws the push, or the app's own handler must.
TrayRendered(p) == ~p.urgent /\ ~p.clientRendered

(***************************************************************************)
(* The fan-out                                                             *)
(***************************************************************************)
SetPrivacy(u, s) ==
    /\ edits < MaxEdits /\ s # "" /\ edits' = edits + 1
    /\ setting' = [setting EXCEPT ![u] = s] /\ had' = [had EXCEPT ![u] = @ \cup {s}]
    /\ UNCHANGED <<fan, told, dead, sends>>

deliverPush(n) ==
    /\ fan.pc = "idle"
    /\ fan' = [pc |-> "users", note |-> n]
    /\ had' = [u \in Recipients |-> {setting[u]}]
    /\ UNCHANGED <<setting, told, dead, edits, sends>>

\* An owner who cannot be loaded is given the most private setting; a ring asks nobody
\* whether they draw previews.
devicesByPrivacy(loaded) ==
    LET GroupKey(d) ==
            [privacy |-> IF OwnerOf[d] \in loaded THEN Effective(setting[OwnerOf[d]]) ELSE "generic",
             renders |-> d \in Renderers]
    IN  {[key |-> GroupKey(d), devices |-> {e \in Phones : GroupKey(e) = GroupKey(d)}] : d \in Phones}

UsersByIDs(loaded) ==
    /\ fan.pc = "users"
    /\ fan' = [pc |-> "send", note |-> fan.note, todo |-> devicesByPrivacy(loaded)]
    /\ UNCHANGED <<setting, told, dead, edits, sends, had>>

\* Where MultiSender sends a phone's push: a call to a PushKit token is peeled off first.
route(n, d) ==
    IF Transport[d] = "voip" THEN IF n.kind = "message" THEN "fcm" ELSE "voip" ELSE Transport[d]

PayloadFor(n, g, d) ==
    CASE route(n, d) = "none" -> Untold
      [] route(n, d) = "voip" -> [transport |-> "voip", payload |-> voipPayloadFor(n, g)]
      [] OTHER -> [transport |-> route(n, d), payload |-> chatNotificationPayload(n, g)]

\* Only what the push service says is gone for good is pruned, and only by messages.
GoneDeviceIDs(n, devices, gone) ==
    IF n.kind = "message" THEN {d \in gone \cap devices : route(n, d) # "none"} ELSE {}

SendGroup(group, gone) ==
    LET n == fan.note
        key == IF n.kind = "message" THEN group.key ELSE [group.key EXCEPT !.renders = FALSE]
    IN  /\ fan.pc = "send" /\ group \in fan.todo
        /\ told' = [d \in Phones |-> IF d \in group.devices THEN PayloadFor(n, key, d) ELSE told[d]]
        /\ sends' = [d \in Phones |-> IF d \in group.devices THEN sends[d] + 1 ELSE sends[d]]
        /\ dead' = dead \cup GoneDeviceIDs(n, group.devices, gone)
        /\ fan' = [fan EXCEPT !.todo = @ \ {group},
                              !.pc = IF fan.todo = {group} THEN "done" ELSE "send"]
        /\ UNCHANGED <<setting, edits, had>>

PpNext ==
    \/ \E u \in Recipients, s \in Settings : SetPrivacy(u, s)
    \/ \E n \in ChatNotification : deliverPush(n)
    \/ \E loaded \in {{}, Recipients} : UsersByIDs(loaded)
    \/ \E group \in IF fan.pc = "send" THEN fan.todo ELSE {} :
          \E gone \in SUBSET group.devices : SendGroup(group, gone)

PpSpec == PpInit /\ [][PpNext]_ppVars

ShowsWho(p) == p.title = "name" \/ p.icon \/ {"senderAvatar", "senderId"} \cap p.data # {}

\* Whatever a recipient changes while a push is on its way, and whatever lookup fails, no
\* phone is told who is writing or calling unless its owner let it be since the fan-out
\* began, and none is handed ciphertext unless its owner asked for previews and the phone can
\* draw them; no payload is too heavy to be delivered; one that the tray will not draw brings
\* what there is to draw; and at the end each phone was sent to once (displayName: "a single
\* accessor is what makes the setting hold everywhere").
PushSaysNoMore ==
    /\ \A d \in Phones : told[d] # Untold =>
          LET p == told[d].payload
              asked == had[OwnerOf[d]]
          IN  /\ ShowsWho(p) => \E s \in asked : ShowsSender(s)
              /\ "ciphertext" \in p.data => d \in Renderers /\ \E s \in asked : ShowsPreview(s)
              /\ payloadFits(fan.note, p)
              /\ ~TrayRendered(p) => "callerName" \in p.data \/ {"title", "body"} \subseteq p.data
    /\ fan.pc = "done" => \A d \in Phones : sends[d] = 1
=============================================================================
