--------------------------- MODULE NotificationHub ---------------------------
(***************************************************************************)
(* The last leg of a notification in notification-service, all in memory:  *)
(* one-time tokens (TokenStore), the subscriptions of the SSE streams with *)
(* a bounded channel each (Hub), and the stream handlers.  The consumer    *)
(* goroutine broadcasts; it works on a copy of the subscriptions made      *)
(* under the lock and sends without the lock.                              *)
(*                                                                         *)
(* A stream is one GET /notifications/stream; a notification is its number *)
(* in the order of the broadcasts.                                         *)
(***************************************************************************)
EXTENDS Naturals, FiniteSets, Sequences

CONSTANTS Streams,    \* requests for a stream
          Tokens,     \* tokens that can be issued
          Users,
          None,       \* no user, no token
          MaxSubs,    \* subscriptions per user (maxSubsPerUser)
          Capacity,   \* capacity of a channel
          TTL,        \* lifetime of a token (tokenTTL)
          MaxTime,    \* bound of the clock (model only)
          MaxNotes    \* bound of the notifications (model only)

ASSUME HubAssumption == /\ MaxSubs \in Nat \ {0}
                        /\ Capacity \in Nat \ {0}
                        /\ {TTL, MaxTime, MaxNotes} \subseteq Nat
                        /\ None \notin Users \cup Tokens

VARIABLES now,       \* the clock
          tokens,    \* tokens[t]: the user and the expiry, or None
          issued,    \* issued[t]: the user t was issued for and when, or None
          subs,      \* subs[u]: streams whose channels the hub has for u
          pc,        \* pc[s]: the next step of stream s
          user,      \* user[s]: the user of stream s, None before its token is taken
          token,     \* token[s]: the token s was opened with
          since,     \* since[s]: notifications broadcast before s subscribed
          channel,   \* channel[s]: notifications waiting for s
          writing,   \* writing[s]: notification being written to s, or 0
          shown,     \* shown[s]: notifications written to the client
          dropped,   \* dropped[s]: notifications the full channel refused
          noteUser,  \* noteUser[n]: whom notification n is for
          targets    \* channels the broadcast under way has still to serve

tokenVars == <<now, tokens, issued>>
openVars == <<user, token, since>>
flowVars == <<channel, writing, shown, dropped>>
noteVars == <<noteUser, targets>>
vars == <<tokenVars, subs, pc, openVars, flowVars, noteVars>>

Entry == [user : Users, time : Nat]

ASSUME NoneAssumption == None \notin Entry

Steps == {"new", "subscribe", "greet", "open", "write", "leave", "closed", "refused"}

Init ==
    /\ now = 0
    /\ tokens = [t \in Tokens |-> None]
    /\ issued = [t \in Tokens |-> None]
    /\ subs = [u \in Users |-> {}]
    /\ pc = [s \in Streams |-> "new"]
    /\ user = [s \in Streams |-> None]
    /\ token = [s \in Streams |-> None]
    /\ since = [s \in Streams |-> 0]
    /\ channel = [s \in Streams |-> <<>>]
    /\ writing = [s \in Streams |-> 0]
    /\ shown = [s \in Streams |-> <<>>]
    /\ dropped = [s \in Streams |-> {}]
    /\ noteUser = <<>>
    /\ targets = {}

Goto(s, step) == pc' = [pc EXCEPT ![s] = step]

(***************************************************************************)
(* TokenStore.                                                             *)
(***************************************************************************)

\* time.Now().After(expiresAt)
Expired(t) == now > tokens[t].time

Issue(u, t) ==
    /\ issued[t] = None
    /\ tokens' = [tokens EXCEPT ![t] = [user |-> u, time |-> now + TTL]]
    /\ issued' = [issued EXCEPT ![t] = [user |-> u, time |-> now]]
    /\ UNCHANGED <<now, subs, pc, openVars, flowVars, noteVars>>

\* Defect: the token stays in the map.
KeepToken(t) == [tokens EXCEPT ![t] = @]

\* delete(s.tokens, token)
DeleteToken(t) == [tokens EXCEPT ![t] = None]

\* cleanup, on a tick of its ticker.
Cleanup ==
    /\ \E t \in Tokens : tokens[t] # None /\ Expired(t)
    /\ tokens' = [t \in Tokens |->
                    IF tokens[t] # None /\ Expired(t) THEN None ELSE tokens[t]]
    /\ UNCHANGED <<now, issued, subs, pc, openVars, flowVars, noteVars>>

\* Consume, at the start of streamNotifications: one step under the lock.  A
\* token that was never issued, or before a restart, is refused.
Consume(s, t) ==
    /\ pc[s] = "new"
    /\ tokens' = DeleteToken(t)
    /\ IF tokens[t] # None /\ ~Expired(t)
       THEN /\ Goto(s, "subscribe")
            /\ user' = [user EXCEPT ![s] = tokens[t].user]
            /\ token' = [token EXCEPT ![s] = t]
       ELSE Goto(s, "refused") /\ UNCHANGED <<user, token>>
    /\ UNCHANGED <<now, issued, subs, since, flowVars, noteVars>>

(***************************************************************************)
(* The stream handler and its subscription.                                *)
(***************************************************************************)

\* Defect: one subscription too many.
FullTooLate(u) == Cardinality(subs[u]) > MaxSubs

Full(u) == Cardinality(subs[u]) >= MaxSubs

Subscribe(s) ==
    /\ pc[s] = "subscribe"
    /\ \/ Full(user[s]) /\ Goto(s, "refused") /\ UNCHANGED <<subs, since>>
       \/ /\ ~Full(user[s])
          /\ subs' = [subs EXCEPT ![user[s]] = @ \cup {s}]
          /\ since' = [since EXCEPT ![s] = Len(noteUser)]
          /\ Goto(s, "greet")
    /\ UNCHANGED <<tokenVars, user, token, flowVars, noteVars>>

\* "event: connected"
Greet(s) ==
    /\ pc[s] = "greet"
    /\ Goto(s, "open")
    /\ UNCHANGED <<tokenVars, subs, openVars, flowVars, noteVars>>

Take(s) ==
    /\ pc[s] = "open"
    /\ channel[s] # <<>>
    /\ writing' = [writing EXCEPT ![s] = Head(channel[s])]
    /\ channel' = [channel EXCEPT ![s] = Tail(@)]
    /\ Goto(s, "write")
    /\ UNCHANGED <<tokenVars, subs, openVars, shown, dropped, noteVars>>

Write(s) ==
    /\ pc[s] = "write"
    /\ shown' = [shown EXCEPT ![s] = Append(@, writing[s])]
    /\ writing' = [writing EXCEPT ![s] = 0]
    /\ Goto(s, "open")
    /\ UNCHANGED <<tokenVars, subs, openVars, channel, dropped, noteVars>>

\* A write fails or meets its deadline, a ping fails, the client goes away or
\* the server is closed.
Disconnect(s) ==
    /\ pc[s] \in {"greet", "open", "write"}
    /\ Goto(s, "leave")
    /\ UNCHANGED <<tokenVars, subs, openVars, flowVars, noteVars>>

\* Defect: the last channel of the user is removed instead of the own one.
WithoutAnother(s) ==
    IF subs[user[s]] = {s} THEN {} ELSE subs[user[s]] \ {CHOOSE x \in subs[user[s]] : x # s}

Without(s) == subs[user[s]] \ {s}

\* What the streams of `ended' held is garbage.
Forget(ended) ==
    /\ since' = [s \in Streams |-> IF s \in ended THEN 0 ELSE since[s]]
    /\ channel' = [s \in Streams |-> IF s \in ended THEN <<>> ELSE channel[s]]
    /\ writing' = [s \in Streams |-> IF s \in ended THEN 0 ELSE writing[s]]
    /\ shown' = [s \in Streams |-> IF s \in ended THEN <<>> ELSE shown[s]]
    /\ dropped' = [s \in Streams |-> IF s \in ended THEN {} ELSE dropped[s]]

\* The deferred unsubscribe.
Leave(s) ==
    /\ pc[s] = "leave"
    /\ subs' = [subs EXCEPT ![user[s]] = Without(s)]
    /\ Goto(s, "closed")
    /\ Forget({s})
    /\ UNCHANGED <<tokenVars, user, token, noteVars>>

(***************************************************************************)
(* Broadcast, called by the consumer for one notification after another.   *)
(***************************************************************************)

\* Defect: the channels of all users.
SubscribersOfAll(u) == UNION {subs[v] : v \in Users \cup {u}}

SubscribersOf(u) == subs[u]

Broadcast(u) ==
    /\ targets = {}
    /\ Len(noteUser) < MaxNotes
    /\ noteUser' = Append(noteUser, u)
    /\ targets' = SubscribersOf(u)
    /\ UNCHANGED <<tokenVars, subs, pc, openVars, flowVars>>

\* Defect: a send without default.
SendBlocks(s) ==
    /\ s \in targets
    /\ targets' = targets \ {s}
    /\ Len(channel[s]) < Capacity
    /\ channel' = [channel EXCEPT ![s] = Append(@, Len(noteUser))]
    /\ UNCHANGED <<tokenVars, subs, pc, openVars, writing, shown, dropped, noteUser>>

\* A send with a default: a full channel loses the notification.
Send(s) ==
    /\ s \in targets
    /\ targets' = targets \ {s}
    /\ \/ /\ Len(channel[s]) < Capacity
          /\ channel' = [channel EXCEPT ![s] = Append(@, Len(noteUser))]
          /\ UNCHANGED dropped
       \/ /\ Len(channel[s]) = Capacity
          /\ dropped' = [dropped EXCEPT ![s] = @ \cup {Len(noteUser)}]
          /\ UNCHANGED channel
    /\ UNCHANGED <<tokenVars, subs, pc, openVars, writing, shown, noteUser>>

(***************************************************************************)
(* Time and restarts.                                                      *)
(***************************************************************************)
Tick ==
    /\ now < MaxTime
    /\ now' = now + 1
    /\ UNCHANGED <<tokens, issued, subs, pc, openVars, flowVars, noteVars>>

\* The process ends: what is in memory is gone, and every stream with it.
Restart ==
    /\ tokens' = [t \in Tokens |-> None]
    /\ subs' = [u \in Users |-> {}]
    /\ pc' = [s \in Streams |-> IF pc[s] \in {"new", "refused"} THEN pc[s] ELSE "closed"]
    /\ targets' = {}
    /\ Forget(Streams)
    /\ UNCHANGED <<now, issued, user, token, noteUser>>

\* Everything but the start of a broadcast and the end of the process.
Serve ==
    \/ \E u \in Users, t \in Tokens : Issue(u, t)
    \/ \E s \in Streams :
          \/ Send(s)
          \/ \E t \in Tokens : Consume(s, t)
          \/ Subscribe(s) \/ Greet(s) \/ Take(s) \/ Write(s) \/ Disconnect(s) \/ Leave(s)
    \/ Cleanup \/ Tick

Next == (\E u \in Users : Broadcast(u)) \/ Serve \/ Restart

Spec == Init /\ [][Next]_vars

(***************************************************************************)
(* Properties.                                                             *)
(***************************************************************************)
Notes == 1 .. Len(noteUser)

InChannel(s) == {channel[s][i] : i \in 1 .. Len(channel[s])}

Shown(s) == {shown[s][i] : i \in 1 .. Len(shown[s])}

\* Type invariant of tokens, subscriptions, streams and notifications.
TypeOK ==
    /\ now \in Nat
    /\ tokens \in [Tokens -> Entry \cup {None}]
    /\ issued \in [Tokens -> Entry \cup {None}]
    /\ subs \in [Users -> SUBSET Streams]
    /\ pc \in [Streams -> Steps]
    /\ user \in [Streams -> Users \cup {None}]
    /\ token \in [Streams -> Tokens \cup {None}]
    /\ since \in [Streams -> Nat]
    /\ channel \in [Streams -> Seq(Notes)]
    /\ writing \in [Streams -> Notes \cup {0}]
    /\ shown \in [Streams -> Seq(Notes)]
    /\ dropped \in [Streams -> SUBSET Notes]
    /\ noteUser \in Seq(Users)
    /\ targets \subseteq Streams

\* A token opens one stream, for the user it was issued to and within its
\* lifetime, even if several requests present it at once or the cleanup has not
\* seen it yet (Consume looks it up, deletes it and compares the times under
\* one lock).
TokenOpensOneStream ==
    [][\A s \in Streams : token[s] = None /\ token'[s] # None =>
          LET entry == issued[token'[s]]
          IN  /\ entry # None /\ entry.user = user'[s]
              /\ now <= entry.time + TTL
              /\ \A other \in Streams : token'[other] = token'[s] => other = s]_vars

\* The hub has exactly the channels of the streams that live, never more than
\* the limit for a user: no stream leaves its channel behind, whichever way it
\* ends, and none loses its channel to the end of another.
SubscribedWhileOpen ==
    /\ \A u \in Users : Cardinality(subs[u]) <= MaxSubs
    /\ \A s \in Streams, u \in Users :
          s \in subs[u] <=> user[s] = u /\ pc[s] \in {"greet", "open", "write", "leave"}

\* A client sees notifications of its own only, in the order in which they
\* were broadcast and none twice, although broadcasts use old copies of the
\* subscriptions.
ShownInOrder ==
    \A s \in Streams : \A i \in 1 .. Len(shown[s]) :
        /\ noteUser[shown[s][i]] = user[s]
        /\ \A j \in 1 .. i - 1 : shown[s][j] < shown[s][i]

\* Nothing is lost but by a full channel: every notification broadcast for its
\* user since a stream subscribed is shown, on its way, or was dropped when
\* Capacity older ones were waiting.
NotesAccounted ==
    \A s \in Streams : pc[s] \in {"greet", "open", "write"} =>
        \A n \in Notes : n > since[s] /\ noteUser[n] = user[s] =>
            \/ n \in Shown(s) \cup InChannel(s) \cup {writing[s]} \cup dropped[s]
            \/ n = Len(noteUser) /\ s \in targets

\* A client that does not read never stops the consumer: whatever the streams
\* are at, a broadcast under way can serve each channel it has left.
BroadcastNeverWaits == \A s \in targets : ENABLED Send(s)

\* TASK_EXTENDED.md:101: when the channel overflows the client is disconnected.
OverflowDisconnects ==
    \A s \in Streams : dropped[s] # {} => pc[s] \notin {"open", "greet"}
=============================================================================
