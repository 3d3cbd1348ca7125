------------------------ MODULE NotificationHubProofs ------------------------
(***************************************************************************)
(* Proofs about NotificationHub and, at the end, about Reconnection, for   *)
(* any number of streams, tokens and users, any limits, and any number of  *)
(* notifications.                                                          *)
(*                                                                         *)
(* A token that has opened a stream is spent: it is gone from the store    *)
(* and is not issued again.  A stream sees its notifications in order      *)
(* because what it has shown, what it is writing, what its channel holds   *)
(* and what is about to be sent to it are in order, one after another.     *)
(* A client misses nothing because what is not on its list was broadcast,  *)
(* or will be, after it subscribed.                                        *)
(***************************************************************************)
EXTENDS Reconnection, FiniteSetTheorems, TLAPS

\* The store's entries say what was issued.
Entries ==
    \A t \in Tokens : tokens[t] # None =>
        /\ issued[t] # None /\ tokens[t].user = issued[t].user
        /\ tokens[t].time = issued[t].time + TTL

\* A token that has opened a stream was issued, and is gone.
Spent == \A s \in Streams : token[s] # None => issued[token[s]] # None /\ tokens[token[s]] = None

\* What the step of a stream says of its user and of what it holds.
Life(s) ==
    /\ pc[s] = "new" => token[s] = None
    /\ pc[s] \notin {"new", "refused"} => user[s] \in Users
    /\ pc[s] \in {"new", "subscribe", "refused"} =>
          channel[s] = <<>> /\ writing[s] = 0 /\ shown[s] = <<>> /\ s \notin targets
    /\ pc[s] = "write" => writing[s] # 0
    /\ pc[s] \in {"greet", "open"} => writing[s] = 0

Lives == \A s \in Streams : Life(s)

\* The broadcast under way serves streams of the user it is for.
Targets == \A s \in targets : Len(noteUser) # 0 /\ noteUser[Len(noteUser)] = user[s]

\* What is shown, written (or 0) and in the channel is due, and in order.
Sorted(sh, w, ch, due) ==
    /\ \A i \in 1 .. Len(sh) :
          /\ sh[i] \in due
          /\ \A j \in 1 .. i - 1 : sh[j] < sh[i]
          /\ w # 0 => sh[i] < w
          /\ \A k \in 1 .. Len(ch) : sh[i] < ch[k]
    /\ w # 0 => w \in due /\ \A k \in 1 .. Len(ch) : w < ch[k]
    /\ \A i \in 1 .. Len(ch) : ch[i] \in due /\ \A j \in 1 .. i - 1 : ch[j] < ch[i]

\* The notifications of the user of s that were sent to it, or not for want of room.
Due(s) == {n \in Notes : noteUser[n] = user[s] /\ (s \in targets => n < Len(noteUser))}

Order(s) == Sorted(shown[s], writing[s], channel[s], Due(s))

Ordered == \A s \in Streams : Order(s)

FiniteSubs == \A u \in Users : IsFiniteSet(subs[u])

\* What NotesAccounted says of stream s and notification n.
Accounted(s, n) ==
    \/ n \in Shown(s) \cup InChannel(s) \cup {writing[s]} \cup dropped[s]
    \/ n = Len(noteUser) /\ s \in targets

Inv ==
    /\ TypeOK /\ Entries /\ Spent /\ Lives /\ Targets
    /\ Ordered /\ FiniteSubs /\ SubscribedWhileOpen /\ NotesAccounted

-----------------------------------------------------------------------------
(* Sequences of notifications.                                             *)

\* A channel with a notification more at its end.
LEMMA AppendNote ==
    ASSUME NEW n \in Nat, NEW s \in Seq(1 .. n), NEW e \in 1 .. n
    PROVE  /\ Append(s, e) \in Seq(1 .. n)
           /\ Len(s) \in Nat /\ Len(Append(s, e)) = Len(s) + 1
           /\ \A i \in 1 .. Len(s) : Append(s, e)[i] = s[i] /\ s[i] \in 1 .. n
           /\ Append(s, e)[Len(s) + 1] = e
OBVIOUS

\* A channel without the notification at its head.
LEMMA TakeNote ==
    ASSUME NEW n \in Nat, NEW s \in Seq(1 .. n), s # <<>>
    PROVE  /\ Len(s) \in Nat /\ Len(s) >= 1 /\ Head(s) = s[1] /\ Head(s) \in 1 .. n
           /\ Tail(s) \in Seq(1 .. n) /\ Len(Tail(s)) = Len(s) - 1
           /\ \A i \in 1 .. Len(s) - 1 : Tail(s)[i] = s[i + 1]
<1>1. Len(s) \in Nat /\ Len(s) >= 1 /\ Head(s) = s[1] /\ Head(s) \in 1 .. n
  OBVIOUS
<1>2. Tail(s) \in Seq(1 .. n) /\ Len(Tail(s)) = Len(s) - 1
  OBVIOUS
<1>3. \A i \in 1 .. Len(s) - 1 : Tail(s)[i] = s[i + 1]
  BY <1>1
<1> QED BY <1>1, <1>2, <1>3

\* The order when the head of the channel is taken to be written.
LEMMA SortedTake ==
    ASSUME NEW n \in Nat, NEW sh \in Seq(1 .. n), NEW ch \in Seq(1 .. n), ch # <<>>,
           NEW due, Sorted(sh, 0, ch, due)
    PROVE  /\ Sorted(sh, Head(ch), Tail(ch), due)
           /\ {ch[i] : i \in 1 .. Len(ch)} \subseteq
                 {Head(ch)} \cup {Tail(ch)[i] : i \in 1 .. Len(Tail(ch))}
<1>1. PICK w \in 1 .. n, tl \in Seq(1 .. n) : w = Head(ch) /\ tl = Tail(ch)
  BY TakeNote
<1>2. /\ Len(ch) \in Nat /\ Len(ch) >= 1 /\ w = ch[1] /\ Len(tl) = Len(ch) - 1
      /\ \A i \in 1 .. Len(tl) : tl[i] = ch[i + 1]
  BY <1>1, TakeNote
<1>3. 1 \in 1 .. Len(ch) /\ \A i \in 1 .. Len(tl) : i + 1 \in 1 .. Len(ch) /\ 1 \in 1 .. (i + 1) - 1
  BY <1>2
<1>4. Sorted(sh, w, tl, due)
  <2>1. \A i \in 1 .. Len(sh) :
          /\ sh[i] \in due /\ (\A j \in 1 .. i - 1 : sh[j] < sh[i]) /\ sh[i] < w
          /\ \A k \in 1 .. Len(tl) : sh[i] < tl[k]
    BY <1>2, <1>3 DEF Sorted
  <2>2. w \in due /\ \A k \in 1 .. Len(tl) : w < tl[k]
    BY <1>2, <1>3 DEF Sorted
  <2>3. ASSUME NEW i \in 1 .. Len(tl)
        PROVE  tl[i] \in due /\ \A j \in 1 .. i - 1 : tl[j] < tl[i]
    <3>1. \A j \in 1 .. i - 1 : j \in 1 .. Len(tl) /\ j + 1 \in 1 .. (i + 1) - 1
      BY <1>2
    <3> QED BY <1>2, <1>3, <3>1 DEF Sorted
  <2> QED BY <2>1, <2>2, <2>3 DEF Sorted
<1>5. ASSUME NEW i \in 1 .. Len(ch)
      PROVE  ch[i] = w \/ \E k \in 1 .. Len(tl) : tl[k] = ch[i]
  <2>1. CASE i = 1
    BY <1>2, <2>1
  <2>2. CASE i # 1
    <3>1. i - 1 \in 1 .. Len(tl) /\ tl[i - 1] = ch[i]
      BY <1>2, <2>2
    <3> QED BY <3>1
  <2> QED BY <2>1, <2>2
<1>6. {ch[i] : i \in 1 .. Len(ch)} \subseteq {w} \cup {tl[i] : i \in 1 .. Len(tl)}
  BY <1>5
<1> QED BY <1>1, <1>4, <1>6

\* The order when the notification being written is shown.
LEMMA SortedWrite ==
    ASSUME NEW n \in Nat, NEW sh \in Seq(1 .. n), NEW ch \in Seq(1 .. n), NEW w \in 1 .. n,
           NEW due, Sorted(sh, w, ch, due)
    PROVE  Sorted(Append(sh, w), 0, ch, due)
<1>1. PICK ap \in Seq(1 .. n) : ap = Append(sh, w)
  BY AppendNote
<1>2. /\ Len(sh) \in Nat /\ Len(ap) = Len(sh) + 1 /\ ap[Len(sh) + 1] = w
      /\ \A i \in 1 .. Len(sh) : ap[i] = sh[i]
  BY <1>1, AppendNote
<1>3. Sorted(ap, 0, ch, due)
  <2>1. ASSUME NEW i \in 1 .. Len(ap)
        PROVE  /\ ap[i] \in due /\ \A j \in 1 .. i - 1 : ap[j] < ap[i]
               /\ \A k \in 1 .. Len(ch) : ap[i] < ch[k]
    <3>1. \A j \in 1 .. i - 1 : j \in 1 .. Len(sh) /\ ap[j] = sh[j]
      BY <1>2
    <3>2. CASE i \in 1 .. Len(sh)
      BY <1>2, <3>1, <3>2 DEF Sorted
    <3>3. CASE i = Len(sh) + 1
      <4>1. ap[i] = w /\ w # 0
        BY <1>2, <3>3
      <4>2. w \in due /\ \A k \in 1 .. Len(ch) : w < ch[k]
        BY <4>1 DEF Sorted
      <4>3. \A j \in 1 .. Len(sh) : sh[j] < w
        BY <4>1 DEF Sorted
      <4> QED BY <3>1, <4>1, <4>2, <4>3
    <3> QED BY <1>2, <3>2, <3>3
  <2>2. \A i \in 1 .. Len(ch) : ch[i] \in due /\ \A j \in 1 .. i - 1 : ch[j] < ch[i]
    BY DEF Sorted
  <2> QED BY <2>1, <2>2 DEF Sorted
<1> QED BY <1>1, <1>3

\* What a longer sequence of notifications has.
LEMMA AppendedNotes ==
    ASSUME NEW n \in Nat, NEW sh \in Seq(1 .. n), NEW w \in 1 .. n
    PROVE  {sh[i] : i \in 1 .. Len(sh)} \cup {w} \subseteq
              {Append(sh, w)[i] : i \in 1 .. Len(Append(sh, w))}
<1>1. PICK ap \in Seq(1 .. n) : ap = Append(sh, w)
  BY AppendNote
<1>2. /\ Len(sh) \in Nat /\ Len(ap) = Len(sh) + 1 /\ ap[Len(sh) + 1] = w
      /\ \A i \in 1 .. Len(sh) : ap[i] = sh[i]
  BY <1>1, AppendNote
<1>3. \A i \in 1 .. Len(sh) : \E k \in 1 .. Len(ap) : ap[k] = sh[i]
  BY <1>2
<1>4. \E k \in 1 .. Len(ap) : ap[k] = w
  <2>1. Len(sh) + 1 \in 1 .. Len(ap)
    BY <1>2
  <2> QED BY <1>2, <2>1
<1> QED BY <1>1, <1>3, <1>4

\* The order when a later notification is sent to the channel.
LEMMA SortedSend ==
    ASSUME NEW sh, NEW ch, NEW w, NEW due, NEW more, due \subseteq more, Sorted(sh, w, ch, due),
           NEW e, e \in more, \A x \in due : x < e,
           NEW ap, Len(ch) \in Nat, Len(ap) = Len(ch) + 1, ap[Len(ch) + 1] = e,
           \A i \in 1 .. Len(ch) : ap[i] = ch[i]
    PROVE  Sorted(sh, w, ap, more)
<1>3. \A k \in 1 .. Len(ap) : k \in 1 .. Len(ch) \/ k = Len(ch) + 1
  OBVIOUS
<1>4. Sorted(sh, w, ap, more)
  <2>1. ASSUME NEW i \in 1 .. Len(sh)
        PROVE  /\ sh[i] \in more /\ \A j \in 1 .. i - 1 : sh[j] < sh[i]
               /\ w # 0 => sh[i] < w
               /\ \A k \in 1 .. Len(ap) : sh[i] < ap[k]
    BY <1>3 DEF Sorted
  <2>2. w # 0 => w \in more /\ \A k \in 1 .. Len(ap) : w < ap[k]
    BY <1>3 DEF Sorted
  <2>3. ASSUME NEW i \in 1 .. Len(ap)
        PROVE  ap[i] \in more /\ \A j \in 1 .. i - 1 : ap[j] < ap[i]
    <3>1. \A j \in 1 .. i - 1 : j \in 1 .. Len(ch) /\ ap[j] = ch[j]
      OBVIOUS
    <3>2. CASE i \in 1 .. Len(ch)
      BY <3>1, <3>2 DEF Sorted
    <3>3. CASE i = Len(ch) + 1
      BY <3>1, <3>3 DEF Sorted
    <3> QED BY <1>3, <3>2, <3>3
  <2> QED BY <2>1, <2>2, <2>3 DEF Sorted
<1> QED BY <1>4

\* More notifications may be due.
LEMMA SortedMore ==
    ASSUME NEW sh, NEW w, NEW ch, NEW due, NEW more, due \subseteq more, Sorted(sh, w, ch, due)
    PROVE  Sorted(sh, w, ch, more)
BY DEF Sorted

\* There is a next notification.
LEMMA MoreNotes ==
    ASSUME NEW n \in Nat, NEW s \in Seq(1 .. n)
    PROVE  s \in Seq(1 .. n + 1)
OBVIOUS

\* The users of the notifications, with one more.
LEMMA NextUser ==
    ASSUME NEW s \in Seq(Users), NEW u \in Users
    PROVE  /\ Append(s, u) \in Seq(Users)
           /\ Len(s) \in Nat /\ Len(Append(s, u)) = Len(s) + 1
           /\ \A i \in 1 .. Len(s) : Append(s, u)[i] = s[i]
           /\ Append(s, u)[Len(s) + 1] = u
OBVIOUS

\* The types of what a stream holds.
LEMMA Held ==
    ASSUME Inv, NEW s \in Streams
    PROVE  /\ Len(noteUser) \in Nat /\ Notes = 1 .. Len(noteUser)
           /\ channel[s] \in Seq(1 .. Len(noteUser)) /\ Len(channel[s]) \in Nat
           /\ shown[s] \in Seq(1 .. Len(noteUser)) /\ Len(shown[s]) \in Nat
           /\ writing[s] \in 0 .. Len(noteUser)
           /\ \A i \in 1 .. Len(channel[s]) : channel[s][i] \in 1 .. Len(noteUser)
           /\ \A i \in 1 .. Len(shown[s]) : shown[s][i] \in 1 .. Len(noteUser)
<1>1. Len(noteUser) \in Nat /\ Notes = 1 .. Len(noteUser)
  BY DEF Inv, TypeOK, Notes
<1>2. /\ channel[s] \in Seq(1 .. Len(noteUser)) /\ shown[s] \in Seq(1 .. Len(noteUser))
      /\ writing[s] \in 0 .. Len(noteUser)
  BY <1>1 DEF Inv, TypeOK
<1> QED BY <1>1, <1>2

-----------------------------------------------------------------------------
(* The invariant holds initially, and every action preserves it.           *)

\* The first state.
LEMMA Initially == Init => Inv
<1> SUFFICES ASSUME Init PROVE Inv
  OBVIOUS
<1>1. TypeOK
  BY HubAssumption DEF Init, TypeOK, Notes, Steps
<1>2. Entries /\ Spent /\ Lives /\ Targets /\ Ordered
  BY HubAssumption DEF Init, Entries, Spent, Lives, Life, Targets, Ordered, Order, Sorted
<1>3. FiniteSubs /\ SubscribedWhileOpen
  BY FS_EmptySet, HubAssumption DEF Init, FiniteSubs, SubscribedWhileOpen
<1>4. NotesAccounted
  BY DEF Init, NotesAccounted
<1> QED BY <1>1, <1>2, <1>3, <1>4 DEF Inv

\* What a step of tokens, openings and subscriptions leaves alone.
LEMMA SameFlow ==
    ASSUME Inv, UNCHANGED <<flowVars, noteVars>>,
           \A s \in Streams : user'[s] = user[s] \/ pc[s] = "new"
    PROVE  Ordered'
<1>1. ASSUME NEW s \in Streams
      PROVE  Order(s)'
  <2>1. CASE user'[s] = user[s]
    <3>1. Due(s)' = Due(s)
      BY <2>1 DEF Due, Notes, noteVars
    <3> QED BY <3>1 DEF Inv, Ordered, Order, flowVars
  <2>2. CASE pc[s] = "new"
    <3>1. channel'[s] = <<>> /\ writing'[s] = 0 /\ shown'[s] = <<>>
      BY <2>2 DEF Inv, Lives, Life, flowVars
    <3> QED BY <3>1 DEF Order, Sorted
  <2> QED BY <2>1, <2>2
<1> QED BY <1>1 DEF Ordered

\* Issue, cleanup and time.
LEMMA StoreInv ==
    ASSUME Inv, Cleanup \/ Tick \/ \E u \in Users, t \in Tokens : Issue(u, t)
    PROVE  Inv'
<1>1. UNCHANGED <<subs, pc, openVars, flowVars, noteVars>>
  BY DEF Cleanup, Tick, Issue
<1>2. /\ now' \in Nat
      /\ tokens' \in [Tokens -> Entry \cup {None}] /\ issued' \in [Tokens -> Entry \cup {None}]
  <2>1. CASE Cleanup
    BY <2>1 DEF Inv, TypeOK, Cleanup
  <2>2. CASE Tick
    BY <2>2 DEF Inv, TypeOK, Tick
  <2>3. CASE \E u \in Users, t \in Tokens : Issue(u, t)
    BY <2>3, HubAssumption DEF Inv, TypeOK, Issue, Entry
  <2> QED BY <2>1, <2>2, <2>3
<1>3. TypeOK'
  BY <1>1, <1>2 DEF Inv, TypeOK, openVars, flowVars, noteVars, Notes
<1>4. \A t \in Tokens :
        \/ issued'[t] = issued[t] /\ tokens'[t] \in {tokens[t], None}
        \/ /\ issued[t] = None /\ issued'[t] # None /\ tokens'[t].user = issued'[t].user
           /\ tokens'[t].time = issued'[t].time + TTL
  <2>1. CASE Cleanup
    BY <2>1 DEF Inv, TypeOK, Cleanup
  <2>2. CASE Tick
    BY <2>2 DEF Inv, TypeOK, Tick
  <2>3. ASSUME NEW u \in Users, NEW t \in Tokens, Issue(u, t)
        PROVE  \A o \in Tokens :
                 \/ issued'[o] = issued[o] /\ tokens'[o] \in {tokens[o], None}
                 \/ /\ issued[o] = None /\ issued'[o] # None /\ tokens'[o].user = issued'[o].user
                    /\ tokens'[o].time = issued'[o].time + TTL
    <3>1. [user |-> u, time |-> now] # None
      BY NoneAssumption DEF Inv, TypeOK, Entry
    <3> QED BY <2>3, <3>1 DEF Inv, TypeOK, Issue
  <2> QED BY <2>1, <2>2, <2>3
<1>5. Entries'
  BY <1>4 DEF Inv, Entries
<1>6. Spent'
  BY <1>1, <1>4 DEF Inv, TypeOK, Spent, openVars
<1>7. Lives' /\ Targets'
  BY <1>1 DEF Inv, Lives, Life, Targets, openVars, flowVars, noteVars
<1>8. Ordered'
  BY <1>1, SameFlow DEF openVars
<1>9. FiniteSubs' /\ SubscribedWhileOpen'
  BY <1>1 DEF Inv, FiniteSubs, SubscribedWhileOpen, openVars
<1>10. NotesAccounted'
  BY <1>1 DEF Inv, NotesAccounted, Notes, Shown, InChannel, openVars, flowVars, noteVars
<1> QED BY <1>3, <1>5, <1>6, <1>7, <1>8, <1>9, <1>10 DEF Inv

\* A token is looked up and deleted; the stream may go on.
LEMMA ConsumeInv == ASSUME Inv, NEW s \in Streams, NEW t \in Tokens, Consume(s, t) PROVE Inv'
<1>1. /\ pc[s] = "new" /\ tokens' = [tokens EXCEPT ![t] = None]
      /\ UNCHANGED <<now, issued, subs, since, flowVars, noteVars>>
  BY DEF Consume, DeleteToken
<1>2. \/ /\ tokens[t] # None
         /\ pc' = [pc EXCEPT ![s] = "subscribe"]
         /\ user' = [user EXCEPT ![s] = tokens[t].user] /\ tokens[t].user \in Users
         /\ token' = [token EXCEPT ![s] = t]
      \/ pc' = [pc EXCEPT ![s] = "refused"] /\ UNCHANGED <<user, token>>
  BY DEF Inv, TypeOK, Entry, Consume, Goto
<1>3. /\ pc'[s] \in {"subscribe", "refused"} /\ (pc'[s] = "subscribe" => user'[s] \in Users)
      /\ \A o \in Streams \ {s} : pc'[o] = pc[o] /\ user'[o] = user[o] /\ token'[o] = token[o]
      /\ token'[s] = token[s] \/ (token'[s] = t /\ tokens[t] # None)
  BY <1>2 DEF Inv, TypeOK
<1>4. TypeOK'
  <2>1. tokens' \in [Tokens -> Entry \cup {None}]
    BY <1>1 DEF Inv, TypeOK
  <2>2. pc' \in [Streams -> Steps]
    BY <1>2 DEF Inv, TypeOK, Steps
  <2>3. user' \in [Streams -> Users \cup {None}]
    BY <1>2 DEF Inv, TypeOK
  <2>4. token' \in [Streams -> Tokens \cup {None}]
    BY <1>2 DEF Inv, TypeOK
  <2> QED BY <1>1, <2>1, <2>2, <2>3, <2>4 DEF Inv, TypeOK, flowVars, noteVars, Notes
<1>5. \A o \in Tokens : tokens'[o] \in {tokens[o], None} /\ tokens'[t] = None
  BY <1>1 DEF Inv, TypeOK
<1>6. Entries'
  BY <1>1, <1>5 DEF Inv, Entries
<1>7. Spent'
  <2> SUFFICES ASSUME NEW o \in Streams, token'[o] # None
               PROVE  issued[token'[o]] # None /\ tokens'[token'[o]] = None
    BY <1>1 DEF Spent
  <2>1. CASE token'[o] = token[o]
    BY <1>5, <2>1 DEF Inv, TypeOK, Spent
  <2>2. CASE token'[o] # token[o]
    BY <1>3, <1>5, <2>2 DEF Inv, Entries
  <2> QED BY <2>1, <2>2
<1>8. Lives'
  BY <1>1, <1>3 DEF Inv, Lives, Life, flowVars, noteVars
<1>9. Targets'
  BY <1>1, <1>3 DEF Inv, TypeOK, Targets, Lives, Life, noteVars
<1>10. Ordered'
  BY <1>1, <1>3, SameFlow
<1>11. FiniteSubs' /\ SubscribedWhileOpen'
  <2>1. FiniteSubs' /\ \A u \in Users : Cardinality(subs'[u]) <= MaxSubs
    BY <1>1 DEF Inv, FiniteSubs, SubscribedWhileOpen
  <2>2. \A u \in Users : s \notin subs[u]
    BY <1>1 DEF Inv, SubscribedWhileOpen
  <2>3. \A o \in Streams, u \in Users :
          o \in subs'[u] <=> user'[o] = u /\ pc'[o] \in {"greet", "open", "write", "leave"}
    BY <1>1, <1>3, <2>2 DEF Inv, SubscribedWhileOpen
  <2> QED BY <2>1, <2>3 DEF SubscribedWhileOpen
<1>12. NotesAccounted'
  BY <1>1, <1>3 DEF Inv, NotesAccounted, Notes, Shown, InChannel, flowVars, noteVars
<1> QED BY <1>4, <1>6, <1>7, <1>8, <1>9, <1>10, <1>11, <1>12 DEF Inv

\* A stream subscribes, or is refused at the limit.
LEMMA SubscribeInv == ASSUME Inv, NEW s \in Streams, Subscribe(s) PROVE Inv'
<1> DEFINE u == user[s]
<1>1. /\ pc[s] = "subscribe" /\ u \in Users
      /\ UNCHANGED <<tokenVars, user, token, flowVars, noteVars>>
  BY DEF Inv, Lives, Life, Subscribe
<1>2. \/ pc' = [pc EXCEPT ![s] = "refused"] /\ UNCHANGED <<subs, since>>
      \/ /\ ~Full(u) /\ subs' = [subs EXCEPT ![u] = @ \cup {s}]
         /\ since' = [since EXCEPT ![s] = Len(noteUser)]
         /\ pc' = [pc EXCEPT ![s] = "greet"]
  BY DEF Subscribe, Goto
<1>3. pc'[s] \in {"refused", "greet"} /\ \A o \in Streams \ {s} : pc'[o] = pc[o]
  BY <1>2 DEF Inv, TypeOK
<1>4. TypeOK'
  <2>1. pc' \in [Streams -> Steps]
    BY <1>2 DEF Inv, TypeOK, Steps
  <2>2. subs' \in [Users -> SUBSET Streams]
    <3>1. subs \in [Users -> SUBSET Streams] /\ subs[u] \cup {s} \in SUBSET Streams
      BY <1>1 DEF Inv, TypeOK
    <3> QED BY <1>1, <1>2, <3>1
  <2>3. since' \in [Streams -> Nat]
    <3>1. since \in [Streams -> Nat] /\ Len(noteUser) \in Nat
      BY DEF Inv, TypeOK
    <3> QED BY <1>2, <3>1
  <2> QED BY <1>1, <2>1, <2>2, <2>3 DEF Inv, TypeOK, tokenVars, flowVars, noteVars, Notes
<1>5. Entries' /\ Spent' /\ Targets'
  BY <1>1 DEF Inv, Entries, Spent, Targets, tokenVars, noteVars
<1>6. Lives'
  BY <1>1, <1>3 DEF Inv, Lives, Life, flowVars, noteVars
<1>7. Ordered'
  BY <1>1, SameFlow
<1>8. FiniteSubs' /\ SubscribedWhileOpen'
  <2>1. CASE subs' = subs /\ pc'[s] = "refused"
    <3>1. \A v \in Users : s \notin subs[v]
      BY <1>1 DEF Inv, SubscribedWhileOpen
    <3>2. FiniteSubs' /\ \A v \in Users : Cardinality(subs'[v]) <= MaxSubs
      BY <2>1 DEF Inv, FiniteSubs, SubscribedWhileOpen
    <3>3. \A o \in Streams, v \in Users :
            o \in subs'[v] <=> user'[o] = v /\ pc'[o] \in {"greet", "open", "write", "leave"}
      BY <1>1, <1>3, <2>1, <3>1 DEF Inv, SubscribedWhileOpen
    <3> QED BY <3>2, <3>3 DEF SubscribedWhileOpen
  <2>2. CASE ~Full(u) /\ subs' = [subs EXCEPT ![u] = @ \cup {s}] /\ pc'[s] = "greet"
    <3>1. subs'[u] = subs[u] \cup {s} /\ \A v \in Users \ {u} : subs'[v] = subs[v]
      BY <1>1, <2>2 DEF Inv, TypeOK
    <3>2. /\ IsFiniteSet(subs[u]) /\ IsFiniteSet(subs'[u]) /\ Cardinality(subs[u]) \in Nat
          /\ Cardinality(subs'[u]) <= Cardinality(subs[u]) + 1
      <4>1. IsFiniteSet(subs[u])
        BY <1>1 DEF Inv, FiniteSubs
      <4>2. Cardinality(subs[u]) \in Nat
        BY <4>1, FS_CardinalityType
      <4>3. /\ IsFiniteSet(subs[u] \cup {s})
            /\ Cardinality(subs[u] \cup {s}) \in {Cardinality(subs[u]), Cardinality(subs[u]) + 1}
        BY <4>1, FS_AddElement
      <4> QED BY <3>1, <4>1, <4>2, <4>3
    <3>3. Cardinality(subs'[u]) <= MaxSubs
      <4>1. Cardinality(subs[u]) < MaxSubs /\ Cardinality(subs'[u]) \in Nat
        BY <2>2, <3>2, FS_CardinalityType, HubAssumption DEF Full
      <4> QED BY <3>2, <4>1, HubAssumption
    <3>4. FiniteSubs' /\ \A v \in Users : Cardinality(subs'[v]) <= MaxSubs
      BY <3>1, <3>2, <3>3 DEF Inv, FiniteSubs, SubscribedWhileOpen
    <3>5. \A o \in Streams, v \in Users :
            o \in subs'[v] <=> user'[o] = v /\ pc'[o] \in {"greet", "open", "write", "leave"}
      BY <1>1, <1>3, <2>2, <3>1 DEF Inv, SubscribedWhileOpen
    <3> QED BY <3>4, <3>5 DEF SubscribedWhileOpen
  <2> QED BY <1>2, <1>3, <2>1, <2>2 DEF Inv, TypeOK
<1>9. NotesAccounted'
  <2> SUFFICES ASSUME NEW o \in Streams, pc'[o] \in {"greet", "open", "write"}, NEW n \in Notes,
                      n > since'[o], noteUser[n] = user[o]
               PROVE  Accounted(o, n)
    BY <1>1 DEF NotesAccounted, Accounted, Notes, Shown, InChannel, flowVars, noteVars
  <2>1. CASE o = s
    <3>1. since'[s] = Len(noteUser)
      BY <1>2, <2>1 DEF Inv, TypeOK
    <3> QED BY <2>1, <3>1 DEF Inv, TypeOK, Notes
  <2>2. CASE o # s
    <3>1. since'[o] = since[o] /\ pc[o] = pc'[o]
      BY <1>2, <1>3, <2>2 DEF Inv, TypeOK
    <3> QED BY <3>1 DEF Inv, NotesAccounted, Accounted
  <2> QED BY <2>1, <2>2
<1> QED BY <1>4, <1>5, <1>6, <1>7, <1>8, <1>9 DEF Inv

\* The greeting, and whatever ends a stream.
LEMMA TurnInv == ASSUME Inv, NEW s \in Streams, Greet(s) \/ Disconnect(s) PROVE Inv'
<1>1. /\ pc[s] \in {"greet", "open", "write"}
      /\ \/ pc[s] = "greet" /\ pc' = [pc EXCEPT ![s] = "open"]
         \/ pc' = [pc EXCEPT ![s] = "leave"]
      /\ UNCHANGED <<tokenVars, subs, openVars, flowVars, noteVars>>
  BY DEF Greet, Disconnect, Goto
<1>2. /\ pc'[s] \in {"open", "leave"} /\ (pc'[s] = "open" => pc[s] = "greet")
      /\ \A o \in Streams \ {s} : pc'[o] = pc[o]
  BY <1>1 DEF Inv, TypeOK
<1>3. TypeOK'
  BY <1>1 DEF Inv, TypeOK, Steps, tokenVars, openVars, flowVars, noteVars, Notes
<1>4. Entries' /\ Spent' /\ Targets'
  BY <1>1 DEF Inv, Entries, Spent, Targets, tokenVars, openVars, noteVars
<1>5. Lives'
  BY <1>1, <1>2 DEF Inv, Lives, Life, openVars, flowVars, noteVars
<1>6. Ordered'
  BY <1>1, SameFlow DEF openVars
<1>7. FiniteSubs' /\ SubscribedWhileOpen'
  BY <1>1, <1>2 DEF Inv, FiniteSubs, SubscribedWhileOpen, openVars
<1>8. NotesAccounted'
  BY <1>1, <1>2 DEF Inv, NotesAccounted, Notes, Shown, InChannel, openVars, flowVars, noteVars
<1> QED BY <1>3, <1>4, <1>5, <1>6, <1>7, <1>8 DEF Inv

\* A step that concerns what one stream holds.
LEMMA OneFlow ==
    ASSUME Inv, NEW s \in Streams, UNCHANGED <<tokenVars, subs, openVars, noteUser>>, TypeOK',
           Life(s)', Order(s)', targets' = targets \/ targets' = targets \ {s},
           \A o \in Streams \ {s} :
              /\ pc'[o] = pc[o] /\ channel'[o] = channel[o] /\ writing'[o] = writing[o]
              /\ shown'[o] = shown[o] /\ dropped'[o] = dropped[o],
           pc'[s] = pc[s] \/ {pc[s], pc'[s]} \subseteq {"greet", "open", "write"},
           pc[s] \in {"greet", "open", "write"} =>
              \A n \in Notes : Accounted(s, n) => Accounted(s, n)'
    PROVE  Inv'
<1>1. Entries' /\ Spent' /\ Targets'
  BY DEF Inv, TypeOK, Entries, Spent, Targets, tokenVars, openVars
<1>2. Lives'
  BY DEF Inv, Lives, Life, openVars
<1>3. Ordered'
  <2>1. ASSUME NEW o \in Streams \ {s}
        PROVE  Order(o)'
    <3>1. Due(o)' = Due(o)
      BY DEF Due, Notes, openVars
    <3> QED BY <3>1 DEF Inv, Ordered, Order
  <2> QED BY <2>1 DEF Ordered
<1>4. FiniteSubs' /\ SubscribedWhileOpen'
  BY DEF Inv, FiniteSubs, SubscribedWhileOpen, openVars
<1>5. NotesAccounted'
  <2> SUFFICES ASSUME NEW o \in Streams, pc'[o] \in {"greet", "open", "write"}, NEW n \in Notes,
                      n > since[o], noteUser[n] = user[o]
               PROVE  Accounted(o, n)'
    BY DEF NotesAccounted, Accounted, Notes, openVars
  <2>1. pc[o] \in {"greet", "open", "write"}
    OBVIOUS
  <2>2. Accounted(o, n)
    BY <2>1 DEF Inv, NotesAccounted, Accounted
  <2>3. CASE o = s
    BY <2>1, <2>2, <2>3
  <2>4. CASE o # s
    BY <2>2, <2>4 DEF Accounted, Shown, InChannel
  <2> QED BY <2>3, <2>4
<1> QED BY <1>1, <1>2, <1>3, <1>4, <1>5 DEF Inv

\* The handler takes the next notification from the channel.
LEMMA TakeInv == ASSUME Inv, NEW s \in Streams, Take(s) PROVE Inv'
<1> DEFINE len == Len(noteUser)
<1>1. /\ pc[s] = "open" /\ channel[s] # <<>> /\ writing[s] = 0
      /\ writing' = [writing EXCEPT ![s] = Head(channel[s])]
      /\ channel' = [channel EXCEPT ![s] = Tail(@)]
      /\ pc' = [pc EXCEPT ![s] = "write"]
      /\ UNCHANGED <<tokenVars, subs, openVars, shown, dropped, noteVars>>
  BY DEF Inv, Lives, Life, Take, Goto
<1>2. /\ len \in Nat /\ Notes = 1 .. len /\ channel[s] \in Seq(1 .. len)
      /\ shown[s] \in Seq(1 .. len)
  BY Held
<1>3. /\ pc'[s] = "write" /\ writing'[s] = Head(channel[s]) /\ channel'[s] = Tail(channel[s])
      /\ \A o \in Streams \ {s} :
            pc'[o] = pc[o] /\ channel'[o] = channel[o] /\ writing'[o] = writing[o]
  BY <1>1 DEF Inv, TypeOK
<1>4. /\ Head(channel[s]) \in 1 .. len /\ Tail(channel[s]) \in Seq(1 .. len)
      /\ writing'[s] \in 1 .. len /\ channel'[s] \in Seq(1 .. len)
  <2>1. Head(channel[s]) \in 1 .. len /\ Tail(channel[s]) \in Seq(1 .. len)
    BY <1>1, <1>2, TakeNote
  <2> QED BY <1>3, <2>1
<1>5. TypeOK'
  <2>1. channel' \in [Streams -> Seq(Notes)]
    BY <1>1, <1>2, <1>4 DEF Inv, TypeOK
  <2>2. writing' \in [Streams -> Notes \cup {0}]
    BY <1>1, <1>2, <1>4 DEF Inv, TypeOK
  <2>3. pc' \in [Streams -> Steps]
    BY <1>1 DEF Inv, TypeOK, Steps
  <2> QED BY <1>1, <2>1, <2>2, <2>3 DEF Inv, TypeOK, tokenVars, openVars, noteVars, Notes
<1>6. Life(s)'
  <2>1. user[s] \in Users /\ UNCHANGED user /\ writing'[s] # 0
    BY <1>1, <1>2, <1>4 DEF Inv, Lives, Life, openVars
  <2> QED BY <1>3, <2>1 DEF Life
<1>7. /\ Sorted(shown[s], Head(channel[s]), Tail(channel[s]), Due(s))
      /\ InChannel(s) \subseteq
            {Head(channel[s])} \cup {Tail(channel[s])[i] : i \in 1 .. Len(Tail(channel[s]))}
  <2>1. Sorted(shown[s], 0, channel[s], Due(s))
    BY <1>1 DEF Inv, Ordered, Order
  <2>2. PICK sh \in Seq(1 .. len), ch \in Seq(1 .. len), due \in {Due(s)} :
          sh = shown[s] /\ ch = channel[s]
    BY <1>2
  <2>3. /\ Sorted(sh, Head(ch), Tail(ch), due)
        /\ {ch[i] : i \in 1 .. Len(ch)} \subseteq
              {Head(ch)} \cup {Tail(ch)[i] : i \in 1 .. Len(Tail(ch))}
    <3>1. len \in Nat /\ ch # <<>> /\ Sorted(sh, 0, ch, due)
      BY <1>1, <1>2, <2>1, <2>2
    <3> HIDE DEF len
    <3> QED BY <3>1, SortedTake, Zenon
  <2> QED BY <2>2, <2>3 DEF InChannel
<1>8. Order(s)'
  <2>1. Due(s)' = Due(s)
    BY <1>1 DEF Due, Notes, openVars, noteVars
  <2> QED BY <1>1, <1>3, <1>7, <2>1 DEF Order
<1>9. ASSUME NEW n \in Notes, Accounted(s, n)
      PROVE  Accounted(s, n)'
  <2>1. InChannel(s) \subseteq InChannel(s)' \cup {writing'[s]}
    BY <1>3, <1>7 DEF InChannel
  <2>2. n # writing[s] /\ Shown(s)' = Shown(s)
    BY <1>1, <1>2 DEF Shown
  <2> QED BY <1>9, <1>1, <2>1, <2>2 DEF Accounted, noteVars
<1> QED
  BY <1>1, <1>3, <1>5, <1>6, <1>8, <1>9, OneFlow DEF noteVars

\* The notification at hand is written.
LEMMA WriteInv == ASSUME Inv, NEW s \in Streams, Write(s) PROVE Inv'
<1> DEFINE len == Len(noteUser)
<1>1. /\ pc[s] = "write" /\ writing[s] # 0
      /\ shown' = [shown EXCEPT ![s] = Append(@, writing[s])]
      /\ writing' = [writing EXCEPT ![s] = 0]
      /\ pc' = [pc EXCEPT ![s] = "open"]
      /\ UNCHANGED <<tokenVars, subs, openVars, channel, dropped, noteVars>>
  BY DEF Inv, Lives, Life, Write, Goto
<1>2. /\ len \in Nat /\ Notes = 1 .. len /\ channel[s] \in Seq(1 .. len) /\ writing[s] \in 1 .. len
      /\ shown[s] \in Seq(1 .. len)
  BY <1>1, Held
<1>3. /\ pc'[s] = "open" /\ writing'[s] = 0 /\ shown'[s] = Append(shown[s], writing[s])
      /\ \A o \in Streams \ {s} :
            pc'[o] = pc[o] /\ shown'[o] = shown[o] /\ writing'[o] = writing[o]
  BY <1>1 DEF Inv, TypeOK
<1>4. Append(shown[s], writing[s]) \in Seq(1 .. len)
  BY <1>2, AppendNote
<1>5. TypeOK'
  <2>1. shown' \in [Streams -> Seq(Notes)]
    BY <1>1, <1>2, <1>4 DEF Inv, TypeOK
  <2>2. writing' \in [Streams -> Notes \cup {0}]
    BY <1>1 DEF Inv, TypeOK
  <2>3. pc' \in [Streams -> Steps]
    BY <1>1 DEF Inv, TypeOK, Steps
  <2> QED BY <1>1, <2>1, <2>2, <2>3 DEF Inv, TypeOK, tokenVars, openVars, noteVars, Notes
<1>6. Life(s)'
  BY <1>1, <1>3 DEF Inv, Lives, Life, openVars
<1>7. /\ Sorted(Append(shown[s], writing[s]), 0, channel[s], Due(s))
      /\ Shown(s) \cup {writing[s]} \subseteq
            {Append(shown[s], writing[s])[i] : i \in 1 .. Len(Append(shown[s], writing[s]))}
  <2>1. Sorted(shown[s], writing[s], channel[s], Due(s))
    BY DEF Inv, Ordered, Order
  <2>2. len \in Nat /\ writing[s] \in 1 .. len
    BY <1>1, <1>2
  <2> DEFINE sh == shown[s]
             ch == channel[s]
             w == writing[s]
             due == Due(s)
  <2>3. len \in Nat /\ sh \in Seq(1 .. len) /\ ch \in Seq(1 .. len) /\ w \in 1 .. len
        /\ Sorted(sh, w, ch, due)
    BY <1>2, <2>1, <2>2
  <2>4. Sorted(Append(sh, w), 0, ch, due)
    <3> HIDE DEF len, sh, ch, w, due
    <3> QED BY <2>3, SortedWrite
  <2>5. {sh[i] : i \in 1 .. Len(sh)} \cup {w} \subseteq
           {Append(sh, w)[i] : i \in 1 .. Len(Append(sh, w))}
    <3> HIDE DEF len, sh, ch, w, due
    <3> QED BY <2>3, AppendedNotes
  <2> QED BY <2>4, <2>5 DEF Shown
<1>8. Order(s)'
  <2>1. Due(s)' = Due(s)
    BY <1>1 DEF Due, Notes, openVars, noteVars
  <2> QED BY <1>1, <1>3, <1>7, <2>1 DEF Order
<1>9. ASSUME NEW n \in Notes, Accounted(s, n)
      PROVE  Accounted(s, n)'
  <2>1. Shown(s) \cup {writing[s]} \subseteq Shown(s)'
    BY <1>3, <1>7 DEF Shown
  <2>2. InChannel(s)' = InChannel(s)
    BY <1>1 DEF InChannel
  <2> QED BY <1>9, <1>1, <2>1, <2>2 DEF Accounted, noteVars
<1> QED
  BY <1>1, <1>3, <1>5, <1>6, <1>8, <1>9, OneFlow DEF noteVars

\* A send, or the loss of the notification for want of room.
LEMMA SendInv == ASSUME Inv, NEW s \in Streams, Send(s) PROVE Inv'
<1> DEFINE len == Len(noteUser)
<1>1. /\ s \in targets /\ targets' = targets \ {s}
      /\ \/ channel' = [channel EXCEPT ![s] = Append(@, len)] /\ UNCHANGED dropped
         \/ dropped' = [dropped EXCEPT ![s] = @ \cup {len}] /\ UNCHANGED channel
      /\ UNCHANGED <<tokenVars, subs, pc, openVars, writing, shown, noteUser>>
  BY DEF Send
<1>2. /\ len \in Nat /\ len # 0 /\ Notes = 1 .. len /\ noteUser[len] = user[s]
      /\ channel[s] \in Seq(1 .. len) /\ shown[s] \in Seq(1 .. len) /\ writing[s] \in 0 .. len
  BY <1>1, Held DEF Inv, Targets
<1>3. /\ channel'[s] \in {channel[s], Append(channel[s], len)}
      /\ dropped'[s] \in {dropped[s], dropped[s] \cup {len}}
      /\ channel'[s] = channel[s] => len \in dropped'[s]
      /\ \A o \in Streams \ {s} : channel'[o] = channel[o] /\ dropped'[o] = dropped[o]
  <2>1. CASE channel' = [channel EXCEPT ![s] = Append(@, len)] /\ UNCHANGED dropped
    <3>1. channel'[s] = Append(channel[s], len) /\ Len(channel'[s]) # Len(channel[s])
      BY <1>2, <2>1, AppendNote DEF Inv, TypeOK
    <3> QED BY <2>1, <3>1 DEF Inv, TypeOK
  <2>2. CASE dropped' = [dropped EXCEPT ![s] = @ \cup {len}] /\ UNCHANGED channel
    BY <2>2 DEF Inv, TypeOK
  <2> QED BY <1>1, <2>1, <2>2
<1>4. Append(channel[s], len) \in Seq(1 .. len)
  BY <1>2, AppendNote
<1>5. TypeOK'
  <2>1. channel' \in [Streams -> Seq(Notes)]
    BY <1>1, <1>2, <1>4 DEF Inv, TypeOK
  <2>2. dropped' \in [Streams -> SUBSET Notes]
    <3>1. dropped \in [Streams -> SUBSET Notes] /\ dropped[s] \cup {len} \in SUBSET Notes
      BY <1>2 DEF Inv, TypeOK
    <3> QED BY <1>1, <3>1
  <2>3. targets' \subseteq Streams
    BY <1>1 DEF Inv, TypeOK
  <2> QED BY <1>1, <2>1, <2>2, <2>3 DEF Inv, TypeOK, tokenVars, openVars, Notes
<1>6. Life(s)'
  BY <1>1 DEF Inv, Lives, Life, openVars
<1>7. /\ Due(s) \subseteq Due(s)' /\ len \in Due(s)' /\ \A x \in Due(s) : x < len
  BY <1>1, <1>2 DEF Due, Notes, openVars
<1>8. Sorted(shown[s], writing[s], channel[s], Due(s))
  BY DEF Inv, Ordered, Order
<1>9. /\ Sorted(shown[s], writing[s], Append(channel[s], len), Due(s)')
      /\ InChannel(s) \cup {len} \subseteq
            {Append(channel[s], len)[i] : i \in 1 .. Len(Append(channel[s], len))}
  <2>1. PICK n \in Nat, due \in {Due(s)}, more \in {Due(s)'} : n = len
    BY <1>2
  <2>2. PICK ch \in Seq(1 .. n), e \in 1 .. n : ch = channel[s] /\ e = len
    BY <1>2, <2>1
  <2>3. PICK ap \in Seq(1 .. n) : ap = Append(ch, e)
    BY AppendNote
  <2>4. /\ Len(ch) \in Nat /\ Len(ap) = Len(ch) + 1 /\ ap[Len(ch) + 1] = e
        /\ \A i \in 1 .. Len(ch) : ap[i] = ch[i]
    BY <2>3, AppendNote
  <2>5. due \subseteq more /\ e \in more /\ \A x \in due : x < e
    BY <1>7, <2>1, <2>2
  <2>6. Sorted(shown[s], writing[s], ch, due)
    BY <1>8, <2>1, <2>2
  <2>7. Sorted(shown[s], writing[s], ap, more)
    BY <2>4, <2>5, <2>6, SortedSend
  <2>8. {ch[i] : i \in 1 .. Len(ch)} \cup {e} \subseteq {ap[i] : i \in 1 .. Len(ap)}
    <3>1. \A i \in 1 .. Len(ch) : i \in 1 .. Len(ap) /\ ap[i] = ch[i]
      BY <2>4
    <3>2. Len(ch) + 1 \in 1 .. Len(ap)
      BY <2>4
    <3>3. e \in {ap[i] : i \in 1 .. Len(ap)}
      BY <2>4, <3>2
    <3> QED BY <3>1, <3>3
  <2>9. ap = Append(channel[s], len)
    BY <2>2, <2>3
  <2> QED BY <2>1, <2>2, <2>7, <2>8, <2>9 DEF InChannel
<1>10. Sorted(shown[s], writing[s], channel[s], Due(s)')
  BY <1>7, <1>8, SortedMore
<1>11. Order(s)'
  BY <1>1, <1>3, <1>9, <1>10 DEF Order
<1>12. ASSUME NEW n \in Notes, Accounted(s, n)
      PROVE  Accounted(s, n)'
  <2>1. InChannel(s) \subseteq InChannel(s)' /\ (channel'[s] # channel[s] => len \in InChannel(s)')
    BY <1>3, <1>9 DEF InChannel
  <2>2. Shown(s)' = Shown(s) /\ dropped[s] \subseteq dropped'[s] /\ writing'[s] = writing[s]
    BY <1>1, <1>3 DEF Shown
  <2> QED BY <1>12, <1>3, <2>1, <2>2 DEF Accounted
<1> QED
  BY <1>1, <1>3, <1>5, <1>6, <1>11, <1>12, OneFlow

\* What ended streams held is forgotten.
LEMMA ForgetTypes ==
    ASSUME Inv, NEW ended \in SUBSET Streams, Forget(ended)
    PROVE  /\ since' \in [Streams -> Nat]
           /\ channel' \in [Streams -> Seq(Notes)] /\ shown' \in [Streams -> Seq(Notes)]
           /\ writing' \in [Streams -> Notes \cup {0}] /\ dropped' \in [Streams -> SUBSET Notes]
           /\ \A s \in Streams : s \notin ended =>
                 /\ since'[s] = since[s] /\ channel'[s] = channel[s] /\ shown'[s] = shown[s]
                 /\ writing'[s] = writing[s] /\ dropped'[s] = dropped[s]
           /\ \A s \in ended : channel'[s] = <<>> /\ shown'[s] = <<>> /\ writing'[s] = 0
<1>1. since' \in [Streams -> Nat]
  BY DEF Inv, TypeOK, Forget
<1>2. <<>> \in Seq(Notes)
  OBVIOUS
<1>3. channel' \in [Streams -> Seq(Notes)]
  BY <1>2 DEF Inv, TypeOK, Forget
<1>4. shown' \in [Streams -> Seq(Notes)]
  BY <1>2 DEF Inv, TypeOK, Forget
<1>5. writing' \in [Streams -> Notes \cup {0}]
  BY DEF Inv, TypeOK, Forget
<1>6. dropped' \in [Streams -> SUBSET Notes]
  BY DEF Inv, TypeOK, Forget
<1> QED BY <1>1, <1>3, <1>4, <1>5, <1>6 DEF Forget

\* The order of streams some of which have ended.
LEMMA ForgetOrder ==
    ASSUME Inv, NEW ended \in SUBSET Streams, Forget(ended), UNCHANGED <<user, noteUser>>,
           targets' \subseteq targets
    PROVE  Ordered'
<1>1. ASSUME NEW s \in Streams
      PROVE  Order(s)'
  <2>1. CASE s \in ended
    BY <2>1, ForgetTypes DEF Order, Sorted
  <2>2. CASE s \notin ended
    <3>1. Sorted(shown[s], writing[s], channel[s], Due(s)) /\ Due(s) \subseteq Due(s)'
      BY DEF Inv, Ordered, Order, Due, Notes
    <3>2. Sorted(shown[s], writing[s], channel[s], Due(s)')
      BY <3>1, SortedMore
    <3> QED BY <2>2, <3>2, ForgetTypes DEF Order
  <2> QED BY <2>1, <2>2
<1> QED BY <1>1 DEF Ordered

\* The deferred unsubscribe.
LEMMA LeaveInv == ASSUME Inv, NEW s \in Streams, Leave(s) PROVE Inv'
<1> DEFINE u == user[s]
<1>1. /\ pc[s] = "leave" /\ u \in Users
      /\ subs' = [subs EXCEPT ![u] = @ \ {s}]
      /\ pc' = [pc EXCEPT ![s] = "closed"]
      /\ Forget({s}) /\ UNCHANGED <<tokenVars, user, token, noteVars>>
  BY DEF Inv, Lives, Life, Leave, Goto, Without
<1>2. /\ since' \in [Streams -> Nat]
      /\ channel' \in [Streams -> Seq(Notes)] /\ shown' \in [Streams -> Seq(Notes)]
      /\ writing' \in [Streams -> Notes \cup {0}] /\ dropped' \in [Streams -> SUBSET Notes]
      /\ \A o \in Streams : o # s =>
            /\ since'[o] = since[o] /\ channel'[o] = channel[o] /\ shown'[o] = shown[o]
            /\ writing'[o] = writing[o] /\ dropped'[o] = dropped[o]
  BY <1>1, ForgetTypes
<1>3. pc'[s] = "closed" /\ \A o \in Streams \ {s} : pc'[o] = pc[o]
  BY <1>1 DEF Inv, TypeOK
<1>4. subs'[u] = subs[u] \ {s} /\ \A v \in Users \ {u} : subs'[v] = subs[v]
  BY <1>1 DEF Inv, TypeOK
<1>5. TypeOK'
  <2>1. subs' \in [Users -> SUBSET Streams]
    <3>1. subs \in [Users -> SUBSET Streams] /\ subs[u] \ {s} \in SUBSET Streams
      BY <1>1 DEF Inv, TypeOK
    <3> QED BY <1>1, <3>1
  <2>2. pc' \in [Streams -> Steps]
    BY <1>1 DEF Inv, TypeOK, Steps
  <2> QED BY <1>1, <1>2, <2>1, <2>2 DEF Inv, TypeOK, tokenVars, noteVars, Notes
<1>6. Entries' /\ Spent' /\ Targets'
  <2>1. UNCHANGED <<tokens, issued, user, token, noteUser, targets>>
    BY <1>1 DEF tokenVars, noteVars
  <2>2. Entries'
    BY <2>1 DEF Inv, Entries
  <2>3. Spent'
    BY <2>1 DEF Inv, Spent
  <2>4. Targets'
    BY <2>1 DEF Inv, Targets
  <2> QED BY <2>2, <2>3, <2>4
<1>7. Lives'
  <2>1. UNCHANGED <<user, token, targets>>
    BY <1>1 DEF noteVars
  <2>2. user[s] \in Users
    BY <1>1 DEF Inv, Lives, Life
  <2>3. Life(s)'
    BY <1>3, <2>1, <2>2 DEF Life
  <2>4. ASSUME NEW o \in Streams \ {s} PROVE Life(o)'
    <3>1. Life(o)
      BY DEF Inv, Lives
    <3> QED BY <1>2, <1>3, <2>1, <3>1 DEF Life
  <2> QED BY <2>3, <2>4 DEF Lives
<1>8. Ordered'
  BY <1>1, ForgetOrder DEF noteVars
<1>9. FiniteSubs' /\ SubscribedWhileOpen'
  <2>1. IsFiniteSet(subs'[u]) /\ Cardinality(subs'[u]) <= MaxSubs
    <3>1. IsFiniteSet(subs[u]) /\ Cardinality(subs[u]) <= MaxSubs
      BY <1>1 DEF Inv, FiniteSubs, SubscribedWhileOpen
    <3>2. /\ IsFiniteSet(subs[u] \ {s}) /\ Cardinality(subs[u] \ {s}) <= Cardinality(subs[u])
          /\ Cardinality(subs[u]) \in Nat /\ Cardinality(subs[u] \ {s}) \in Nat
      BY <3>1, FS_Subset, FS_CardinalityType
    <3> QED BY <1>4, <3>1, <3>2, HubAssumption
  <2>2. FiniteSubs' /\ \A v \in Users : Cardinality(subs'[v]) <= MaxSubs
    BY <1>4, <2>1 DEF Inv, FiniteSubs, SubscribedWhileOpen
  <2>3. \A o \in Streams, v \in Users :
          o \in subs'[v] <=> user'[o] = v /\ pc'[o] \in {"greet", "open", "write", "leave"}
    BY <1>1, <1>3, <1>4 DEF Inv, SubscribedWhileOpen
  <2> QED BY <2>2, <2>3 DEF SubscribedWhileOpen
<1>10. NotesAccounted'
  <2>1. ASSUME NEW o \in Streams, pc'[o] \in {"greet", "open", "write"}
        PROVE  /\ pc[o] \in {"greet", "open", "write"} /\ since'[o] = since[o]
               /\ Shown(o)' = Shown(o) /\ InChannel(o)' = InChannel(o)
               /\ writing'[o] = writing[o] /\ dropped'[o] = dropped[o]
    BY <1>2, <1>3, <2>1 DEF Shown, InChannel
  <2> QED BY <1>1, <2>1 DEF Inv, NotesAccounted, Notes, noteVars
<1> QED BY <1>5, <1>6, <1>7, <1>8, <1>9, <1>10 DEF Inv

\* The process ends.
LEMMA RestartInv == Inv /\ Restart => Inv'
<1> SUFFICES ASSUME Inv, Restart PROVE Inv'
  OBVIOUS
<1>1. /\ tokens' = [t \in Tokens |-> None] /\ subs' = [u \in Users |-> {}]
      /\ pc' = [s \in Streams |-> IF pc[s] \in {"new", "refused"} THEN pc[s] ELSE "closed"]
      /\ targets' = {} /\ Forget(Streams) /\ UNCHANGED <<now, issued, user, token, noteUser>>
  BY DEF Restart
<1>2. /\ since' \in [Streams -> Nat]
      /\ channel' \in [Streams -> Seq(Notes)] /\ shown' \in [Streams -> Seq(Notes)]
      /\ writing' \in [Streams -> Notes \cup {0}] /\ dropped' \in [Streams -> SUBSET Notes]
      /\ \A s \in Streams : channel'[s] = <<>> /\ shown'[s] = <<>> /\ writing'[s] = 0
  BY <1>1, ForgetTypes
<1>3. TypeOK'
  <2>1. tokens' \in [Tokens -> Entry \cup {None}] /\ subs' \in [Users -> SUBSET Streams]
        /\ pc' \in [Streams -> Steps]
    BY <1>1 DEF Inv, TypeOK, Steps
  <2> QED BY <1>1, <1>2, <2>1 DEF Inv, TypeOK, Notes
<1>4. Entries' /\ Spent' /\ Targets'
  BY <1>1 DEF Inv, TypeOK, Entries, Spent, Targets
<1>5. Lives'
  BY <1>1, <1>2 DEF Inv, TypeOK, Lives, Life, Steps
<1>6. Ordered'
  BY <1>1, ForgetOrder
<1>7. FiniteSubs' /\ SubscribedWhileOpen'
  BY <1>1, FS_EmptySet, HubAssumption DEF FiniteSubs, SubscribedWhileOpen
<1>8. NotesAccounted'
  BY <1>1 DEF NotesAccounted
<1> QED BY <1>3, <1>4, <1>5, <1>6, <1>7, <1>8 DEF Inv

\* A broadcast begins with a copy of the subscriptions.
LEMMA BroadcastInv == ASSUME Inv, NEW u \in Users, Broadcast(u) PROVE Inv'
<1> DEFINE len == Len(noteUser)
<1>1. /\ targets = {} /\ noteUser' = Append(noteUser, u) /\ targets' = subs[u]
      /\ UNCHANGED <<tokenVars, subs, pc, openVars, flowVars>>
  BY DEF Broadcast, SubscribersOf
<1>2. /\ len \in Nat /\ noteUser' \in Seq(Users) /\ Len(noteUser') = len + 1
      /\ \A n \in 1 .. len : noteUser'[n] = noteUser[n]
      /\ noteUser'[len + 1] = u
  BY <1>1, NextUser DEF Inv, TypeOK
<1>3. Notes = 1 .. len /\ Notes' = 1 .. len + 1 /\ Notes \subseteq Notes'
  BY <1>2 DEF Notes
<1>4. TypeOK'
  <2>1. \A s \in Streams : channel[s] \in Seq(Notes') /\ shown[s] \in Seq(Notes')
    BY <1>2, <1>3, MoreNotes DEF Inv, TypeOK
  <2>2. channel' \in [Streams -> Seq(Notes')] /\ shown' \in [Streams -> Seq(Notes')]
    BY <1>1, <2>1 DEF Inv, TypeOK, flowVars
  <2>3. writing' \in [Streams -> Notes' \cup {0}] /\ dropped' \in [Streams -> SUBSET (Notes')]
    BY <1>1, <1>3 DEF Inv, TypeOK, flowVars
  <2>4. targets' \subseteq Streams
    BY <1>1 DEF Inv, TypeOK
  <2> QED BY <1>1, <1>2, <2>2, <2>3, <2>4 DEF Inv, TypeOK, tokenVars, openVars
<1>5. \A s \in targets' : s \in Streams /\ user[s] = u /\ pc[s] \in {"greet", "open", "write", "leave"}
  BY <1>1 DEF Inv, TypeOK, SubscribedWhileOpen
<1>6. Entries' /\ Spent'
  BY <1>1 DEF Inv, Entries, Spent, tokenVars, openVars
<1>7. Lives'
  BY <1>1, <1>5 DEF Inv, Lives, Life, openVars, flowVars
<1>8. Targets'
  BY <1>1, <1>2, <1>5 DEF Targets, openVars
<1>9. Ordered'
  <2>1. ASSUME NEW s \in Streams
        PROVE  Order(s)'
    <3>1. Due(s) \subseteq Due(s)'
      BY <1>1, <1>2, <1>3 DEF Due, openVars
    <3>2. Sorted(shown[s], writing[s], channel[s], Due(s))
      BY DEF Inv, Ordered, Order
    <3>3. Sorted(shown[s], writing[s], channel[s], Due(s)')
      BY <3>1, <3>2, SortedMore
    <3> QED BY <1>1, <3>3 DEF Order, flowVars
  <2> QED BY <2>1 DEF Ordered
<1>10. FiniteSubs' /\ SubscribedWhileOpen'
  BY <1>1 DEF Inv, FiniteSubs, SubscribedWhileOpen, openVars
<1>11. NotesAccounted'
  <2> SUFFICES ASSUME NEW s \in Streams, pc[s] \in {"greet", "open", "write"}, NEW n \in Notes',
                      n > since[s], noteUser'[n] = user[s]
               PROVE  \/ n \in Shown(s) \cup InChannel(s) \cup {writing[s]} \cup dropped[s]
                      \/ n = Len(noteUser') /\ s \in targets'
    BY <1>1 DEF NotesAccounted, Shown, InChannel, openVars, flowVars
  <2>1. CASE n = len + 1
    <3>1. user[s] = u
      BY <1>2, <2>1
    <3>2. s \in subs[u]
      BY <3>1 DEF Inv, SubscribedWhileOpen
    <3> QED BY <1>1, <1>2, <2>1, <3>2
  <2>2. CASE n # len + 1
    <3>1. n \in Notes /\ noteUser[n] = user[s]
      BY <1>2, <1>3, <2>2
    <3> QED BY <1>1, <3>1 DEF Inv, NotesAccounted
  <2> QED BY <2>1, <2>2
<1> QED BY <1>4, <1>6, <1>7, <1>8, <1>9, <1>10, <1>11 DEF Inv

\* The invariant is inductive.
LEMMA Inductive == Inv /\ [Next]_vars => Inv'
<1> SUFFICES ASSUME Inv, [Next]_vars PROVE Inv'
  OBVIOUS
<1>1. CASE UNCHANGED vars
  <2>1. UNCHANGED <<now, tokens, issued, subs, pc, user, token, since, channel, writing, shown,
                    dropped, noteUser, targets>>
    BY <1>1 DEF vars, tokenVars, openVars, flowVars, noteVars
  <2>2. TypeOK' /\ Entries' /\ Spent' /\ Lives' /\ Targets'
    BY <2>1 DEF Inv, TypeOK, Entries, Spent, Lives, Life, Targets, Notes
  <2>3. Ordered'
    BY <2>1, SameFlow DEF flowVars, noteVars
  <2>4. FiniteSubs' /\ SubscribedWhileOpen' /\ NotesAccounted'
    BY <2>1 DEF Inv, FiniteSubs, SubscribedWhileOpen, NotesAccounted, Notes, Shown, InChannel
  <2> QED BY <2>2, <2>3, <2>4 DEF Inv
<1>2. CASE \E u \in Users : Broadcast(u)
  BY <1>2, BroadcastInv
<1>3. CASE Serve
  <2>1. CASE Cleanup \/ Tick \/ \E u \in Users, t \in Tokens : Issue(u, t)
    BY <2>1, StoreInv
  <2>2. ASSUME NEW s \in Streams,
               \/ Send(s) \/ (\E t \in Tokens : Consume(s, t)) \/ Subscribe(s)
               \/ Greet(s) \/ Take(s) \/ Write(s) \/ Disconnect(s) \/ Leave(s)
        PROVE  Inv'
    BY <2>2, SendInv, ConsumeInv, SubscribeInv, TurnInv, TakeInv, WriteInv, LeaveInv
  <2> QED BY <1>3, <2>1, <2>2 DEF Serve
<1> QED BY <1>1, <1>2, <1>3, RestartInv DEF Next

\* A token that opens a stream is valid, and opens no other.
LEMMA StepOpensOnce ==
    ASSUME Inv, [Next]_vars, NEW s \in Streams, token[s] = None, token'[s] # None
    PROVE  /\ issued[token'[s]] # None /\ issued[token'[s]].user = user'[s]
           /\ now <= issued[token'[s]].time + TTL
           /\ \A other \in Streams : token'[other] = token'[s] => other = s
<1>1. PICK o \in Streams, t \in Tokens : Consume(o, t)
  BY DEF Next, Serve, Issue, Cleanup, Tick, Send, Subscribe, Greet, Take, Write, Disconnect, Leave,
         Broadcast, Restart, vars, tokenVars, openVars
<1>2. /\ tokens[t] # None /\ ~Expired(t)
      /\ user' = [user EXCEPT ![o] = tokens[t].user] /\ token' = [token EXCEPT ![o] = t]
  BY <1>1 DEF Consume
<1>3. o = s /\ token'[s] = t /\ user'[s] = tokens[t].user
      /\ \A other \in Streams \ {s} : token'[other] = token[other]
  BY <1>2 DEF Inv, TypeOK
<1>4. /\ issued[t] # None /\ tokens[t].user = issued[t].user
      /\ tokens[t].time = issued[t].time + TTL
  BY <1>2 DEF Inv, Entries
<1>5. now <= tokens[t].time
  <2>1. now \in Nat /\ tokens[t] \in Entry
    BY <1>2 DEF Inv, TypeOK
  <2> QED BY <1>2, <2>1 DEF Expired, Entry
<1>6. \A other \in Streams \ {s} : token[other] # t
  BY <1>2, HubAssumption DEF Inv, Spent
<1> QED BY <1>3, <1>4, <1>5, <1>6

-----------------------------------------------------------------------------
\* The inductive invariant holds, however tokens, streams and broadcasts are
\* interleaved and the process ends.
THEOREM HubInvariance == Spec => []Inv
BY Initially, Inductive, PTL DEF Spec

\* Type correctness of tokens, subscriptions, streams and notifications.
THEOREM HubTypes == Spec => []TypeOK
<1>1. Inv => TypeOK
  BY DEF Inv
<1> QED BY <1>1, HubInvariance, PTL

\* The hub has the channels of the living streams, up to the limit per user.
THEOREM ChannelsOfTheLiving == Spec => []SubscribedWhileOpen
<1>1. Inv => SubscribedWhileOpen
  BY DEF Inv
<1> QED BY <1>1, HubInvariance, PTL

\* A client sees its own notifications in the order of the broadcasts.
THEOREM ClientsSeeInOrder == Spec => []ShownInOrder
<1>1. Inv => ShownInOrder
  BY DEF Inv, Ordered, Order, Sorted, Due, ShownInOrder
<1> QED BY <1>1, HubInvariance, PTL

\* Nothing is lost but by a full channel.
THEOREM NothingUnaccounted == Spec => []NotesAccounted
<1>1. Inv => NotesAccounted
  BY DEF Inv
<1> QED BY <1>1, HubInvariance, PTL

\* A token opens one stream, of its user and in time.
THEOREM TokenIsOneTime == Spec => TokenOpensOneStream
<1>1. Inv /\ [Next]_vars =>
        [\A s \in Streams : token[s] = None /\ token'[s] # None =>
          LET entry == issued[token'[s]]
          IN  /\ entry # None /\ entry.user = user'[s]
              /\ now <= entry.time + TTL
              /\ \A other \in Streams : token'[other] = token'[s] => other = s]_vars
  BY StepOpensOnce
<1> QED BY <1>1, HubInvariance, PTL DEF Spec, TokenOpensOneStream

-----------------------------------------------------------------------------
\* No channel holds more than its capacity.
Bounded == \A s \in Streams : Len(channel[s]) <= Capacity

\* A channel is filled only while it has room.
LEMMA BoundedInductive == Inv /\ Bounded /\ [Next]_vars => Bounded'
<1> SUFFICES ASSUME Inv, Bounded, [Next]_vars, NEW s \in Streams
             PROVE  Len(channel'[s]) <= Capacity
  BY DEF Bounded
<1>1. /\ channel[s] \in Seq(Notes) /\ Len(channel[s]) \in Nat
      /\ Len(channel[s]) <= Capacity /\ Capacity \in Nat
      /\ channel \in [Streams -> Seq(Notes)]
  BY HubAssumption DEF Inv, TypeOK, Bounded
<1>2. CASE channel'[s] \in {channel[s], <<>>}
  BY <1>1, <1>2
<1>3. ASSUME NEW x \in Streams, Send(x)
      PROVE  \/ channel'[s] = channel[s]
             \/ /\ Len(channel[s]) < Capacity
                /\ channel'[s] = Append(channel[s], Len(noteUser))
  BY <1>1, <1>3 DEF Send
<1>4. CASE /\ Len(channel[s]) < Capacity
           /\ channel'[s] = Append(channel[s], Len(noteUser))
  BY <1>1, <1>4
<1>5. ASSUME NEW x \in Streams, Take(x)
      PROVE  \/ channel'[s] = channel[s]
             \/ channel[s] # <<>> /\ channel'[s] = Tail(channel[s])
  BY <1>1, <1>5 DEF Take
<1>6. CASE channel[s] # <<>> /\ channel'[s] = Tail(channel[s])
  <2>1. Len(Tail(channel[s])) = Len(channel[s]) - 1
    BY <1>1, <1>6
  <2> QED BY <1>1, <1>6, <2>1
<1>7. \/ channel'[s] \in {channel[s], <<>>}
      \/ \E x \in Streams : Send(x) \/ Take(x)
  <2>1. \A ended : Forget(ended) => channel'[s] \in {channel[s], <<>>}
    BY DEF Forget
  <2>2. \/ UNCHANGED channel
        \/ \E ended : Forget(ended)
        \/ \E x \in Streams : Send(x) \/ Take(x)
    BY DEF Next, Broadcast, Serve, Restart, Issue, Consume, Subscribe, Greet, Write, Disconnect,
       Leave, Cleanup, Tick, flowVars, vars
  <2> QED BY <2>1, <2>2
<1> QED BY <1>2, <1>3, <1>4, <1>5, <1>6, <1>7

\* Of the two ways a send goes, one is always open: a channel has room or is
\* full to its capacity, and never beyond.  (A step of the broadcast is never
\* disabled for this reason; TLC checks BroadcastNeverWaits itself.)
THEOREM ChannelsBounded == Spec => []Bounded
<1>1. Init => Bounded
  BY HubAssumption DEF Init, Bounded
<1> QED BY <1>1, BoundedInductive, HubInvariance, PTL DEF Spec

-----------------------------------------------------------------------------
(***************************************************************************)
(* Reconnection.  The inbox uses the hub as the hub allows, so what is     *)
(* proved of the hub holds; a row that is not on a client's list lies      *)
(* behind a full page or was inserted after its subscription, and so was   *)
(* its broadcast.                                                          *)
(***************************************************************************)

\* The streams whose clients are connected.
Reading(s) == pc[s] \in {"open", "write"}

\* A row of the table.
Row == [user : Users, note : Nat]

\* The rows, what is known of their broadcasts, and the lists.
RowTypes ==
    /\ rows \in Seq(Row)
    /\ asked \subseteq Streams
    /\ listed \in [Streams -> SUBSET Nat]
    /\ \A s \in Streams : since[s] <= Len(noteUser)

\* The consumer broadcasts one row after the other.
OneAtATime ==
    pending => Len(rows) # 0 /\ rows[Len(rows)].note = 0 /\ targets = {}

\* A row's broadcast is for the user of the row.
OfItsUser ==
    \A i \in 1 .. Len(rows) : rows[i].note # 0 =>
        rows[i].note \in Notes /\ noteUser[rows[i].note] = rows[i].user

\* The broadcast of a row that is neither on a client's list nor behind its
\* full page came after its subscription, or is to come.
AfterList(s) ==
    \A i \in Unread(user[s]) \ listed[s] :
        \/ rows[i].note > since[s]
        \/ pending /\ i = Len(rows)
        \/ BehindFullPage(i, s)

\* A client that has a list is connected.
Unlisted == \A s \in asked : Reading(s) /\ AfterList(s)

InboxInv == RowTypes /\ OneAtATime /\ OfItsUser /\ Unlisted

\* What a row is.
LEMMA RowParts ==
    ASSUME InboxInv
    PROVE  /\ Len(rows) \in Nat
           /\ \A i \in 1 .. Len(rows) : /\ rows[i] \in Row
                                        /\ rows[i].user \in Users /\ rows[i].note \in Nat
<1>1. rows \in Seq(Row)
  BY DEF InboxInv, RowTypes
<1>2. Len(rows) \in Nat /\ \A i \in 1 .. Len(rows) : rows[i] \in Row
  BY <1>1
<1> QED BY <1>2 DEF Row

\* Rows, their broadcasts and the number of broadcasts as they were, and no new
\* list.
LEMMA SameInbox ==
    ASSUME Inv, InboxInv, UNCHANGED <<rows, pending, noteUser>>, read \subseteq read',
           targets' \subseteq targets, asked' \subseteq asked,
           listed' \in [Streams -> SUBSET Nat],
           \A s \in Streams : since'[s] <= Len(noteUser),
           \A s \in asked' :
               Reading(s)' /\ since'[s] = since[s] /\ user'[s] = user[s] /\ listed'[s] = listed[s]
    PROVE  InboxInv'
<1>1. RowTypes'
  BY DEF InboxInv, RowTypes
<1>2. OneAtATime' /\ OfItsUser'
  BY DEF InboxInv, OneAtATime, OfItsUser, Notes
<1>3. ASSUME NEW s \in asked' PROVE Reading(s)' /\ AfterList(s)'
  <2>1. /\ s \in asked /\ Reading(s)'
        /\ since'[s] = since[s] /\ user'[s] = user[s] /\ listed'[s] = listed[s]
    BY <1>3
  <2>2. AfterList(s)
    BY <2>1 DEF InboxInv, Unlisted
  <2>3. Unread(user[s])' \subseteq Unread(user[s])
    BY <2>1 DEF Unread
  <2> QED BY <2>1, <2>2, <2>3 DEF AfterList, BehindFullPage
<1> QED BY <1>1, <1>2, <1>3 DEF InboxInv, Unlisted

\* The INSERT: the row is the last one, and is about to be broadcast.
LEMMA InsertInbox ==
    ASSUME Inv, InboxInv, NEW u \in Users, Insert(u)
    PROVE  InboxInv'
<1>1. /\ ~pending /\ targets = {} /\ pending' = TRUE
      /\ rows' = Append(rows, [user |-> u, note |-> 0])
      /\ UNCHANGED <<read, noteUser, targets, since, user, asked, listed, pc>>
  BY DEF Insert, vars, noteVars, openVars
<1>2. /\ rows' \in Seq(Row)
      /\ Len(rows) \in Nat /\ Len(rows') = Len(rows) + 1
      /\ \A i \in 1 .. Len(rows) : rows'[i] = rows[i]
      /\ rows'[Len(rows')] = [user |-> u, note |-> 0]
  <2>1. rows \in Seq(Row) /\ [user |-> u, note |-> 0] \in Row
    BY DEF InboxInv, RowTypes, Row
  <2> QED BY <1>1, <2>1
<1>3. \A i \in 1 .. Len(rows') : i = Len(rows') \/ i \in 1 .. Len(rows)
  BY <1>2
<1>4. RowTypes'
  BY <1>1, <1>2 DEF InboxInv, RowTypes
<1>5. OneAtATime'
  BY <1>1, <1>2 DEF OneAtATime
<1>6. OfItsUser'
  BY <1>1, <1>2, <1>3 DEF InboxInv, OfItsUser, Notes
<1>7. ASSUME NEW s \in asked PROVE AfterList(s)'
  <2>1. AfterList(s)
    BY DEF InboxInv, Unlisted
  <2>2. ASSUME NEW i \in Unread(user[s])' \ listed[s]
        PROVE  (rows[i].note > since[s])' \/ i = Len(rows') \/ BehindFullPage(i, s)'
    BY <1>1, <1>2, <1>3, <2>1, <2>2 DEF AfterList, Unread, BehindFullPage
  <2> QED BY <1>1, <2>2 DEF AfterList
<1> QED BY <1>1, <1>4, <1>5, <1>6, <1>7 DEF InboxInv, Unlisted, Reading

\* Its broadcast: the number is above those of every subscription.
LEMMA BroadcastInbox ==
    ASSUME Inv, InboxInv, BroadcastInserted
    PROVE  InboxInv'
<1> DEFINE last == Len(rows)
           n == Len(noteUser)
           u == rows[last].user
<1>1. /\ last \in Nat \ {0} /\ last \in 1 .. last /\ u \in Users
      /\ rows \in Seq(Row)
  <2>1. pending /\ last # 0 /\ rows \in Seq(Row)
    BY DEF BroadcastInserted, InboxInv, RowTypes, OneAtATime
  <2>2. last \in Nat \ {0} /\ last \in 1 .. last
    BY <2>1, RowParts
  <2> HIDE DEF last
  <2>3. rows[last].user \in Users
    BY <2>2, RowParts DEF last
  <2> QED BY <2>1, <2>2, <2>3
<1>2. n \in Nat /\ noteUser \in Seq(Users)
  BY DEF Inv, TypeOK
<1>3. /\ noteUser' = Append(noteUser, u) /\ pending' = FALSE
      /\ rows' = [rows EXCEPT ![last].note = Len(noteUser')]
      /\ UNCHANGED <<read, since, user, asked, listed, pc>>
  BY DEF BroadcastInserted, Broadcast, openVars
<1>4. /\ Len(noteUser') = n + 1 /\ noteUser'[n + 1] = u
      /\ \A i \in 1 .. n : noteUser'[i] = noteUser[i]
  BY <1>1, <1>2, <1>3
<1>5. /\ rows' \in Seq(Row) /\ Len(rows') = last
      /\ rows'[last].note = n + 1 /\ rows'[last].user = u
      /\ \A i \in 1 .. last : i # last => rows'[i] = rows[i]
  <2>1. rows[last] \in Row
    BY <1>1, RowParts
  <2> DEFINE row == [rows[last] EXCEPT !.note = n + 1]
  <2>2. row \in Row /\ row.note = n + 1 /\ row.user = u
    BY <1>2, <2>1 DEF Row
  <2>3. rows' = [rows EXCEPT ![last] = row]
    BY <1>3, <1>4
  <2> HIDE DEF row, last, n, u
  <2> QED BY <1>1, <2>2, <2>3 DEF last
<1> HIDE DEF last, n, u
<1>6. RowTypes'
  <2>1. \A s \in Streams : since[s] \in Nat /\ since[s] <= n
    BY DEF Inv, TypeOK, InboxInv, RowTypes, n
  <2>2. \A s \in Streams : since[s] <= n + 1
    BY <1>2, <2>1
  <2> QED BY <1>3, <1>4, <1>5, <2>1, <2>2 DEF InboxInv, RowTypes
<1>7. OneAtATime'
  BY <1>3 DEF OneAtATime
<1>8. OfItsUser'
  <2>1. \A i \in 1 .. last : rows[i].note # 0 =>
           rows[i].note \in 1 .. n /\ noteUser[rows[i].note] = rows[i].user
    BY DEF InboxInv, OfItsUser, Notes, last, n
  <2>2. ASSUME NEW i \in 1 .. last, rows'[i].note # 0
        PROVE  rows'[i].note \in 1 .. n + 1 /\ noteUser'[rows'[i].note] = rows'[i].user
    <3>1. CASE i = last
      BY <1>2, <1>4, <1>5, <3>1
    <3>2. CASE i # last
      BY <1>2, <1>4, <1>5, <2>1, <2>2, <3>2
    <3> QED BY <3>1, <3>2
  <2> QED BY <1>4, <1>5, <2>2 DEF OfItsUser, Notes
<1>9. ASSUME NEW s \in asked PROVE AfterList(s)'
  <2> s \in Streams
    BY DEF InboxInv, RowTypes
  <2>1. since[s] \in Nat /\ since[s] <= n
    BY DEF Inv, TypeOK, InboxInv, RowTypes, n
  <2>2. n + 1 > since[s]
    BY <1>2, <2>1
  <2>3. \A i \in Unread(user[s]) \ listed[s] :
           rows[i].note > since[s] \/ i = last \/ BehindFullPage(i, s)
    BY DEF InboxInv, Unlisted, AfterList, last
  <2>4. Unread(user[s])' = Unread(user[s])
    BY <1>1, <1>3, <1>5 DEF Unread, last, u
  <2>5. \A i \in Unread(user[s]) : i \in 1 .. last
    BY DEF Unread, last
  <2>6. \A i : BehindFullPage(i, s)' = BehindFullPage(i, s)
    BY <1>3 DEF BehindFullPage
  <2> QED BY <1>3, <1>5, <2>2, <2>3, <2>4, <2>5, <2>6 DEF AfterList
<1> QED BY <1>3, <1>6, <1>7, <1>8, <1>9 DEF InboxInv, Unlisted, Reading

\* The list: what is not on the page lies behind it.
LEMMA ListInbox ==
    ASSUME Inv, InboxInv, NEW s \in Streams, List(s)
    PROVE  InboxInv'
<1>1. PICK page \in Pages(user[s]) : listed' = [listed EXCEPT ![s] = page]
  BY DEF List
<1>2. /\ asked' = asked \cup {s}
      /\ UNCHANGED <<rows, read, pending, noteUser, targets, since, user, pc>>
  BY DEF List, vars, noteVars, openVars
<1>3. Len(rows) \in Nat
  BY DEF InboxInv, RowTypes
<1>4. /\ page \subseteq Unread(user[s]) /\ page \in SUBSET Nat
      /\ \A i \in Unread(user[s]) \ page :
            Cardinality(page) = ListLimit /\ \A j \in page : i < j
  BY <1>1, <1>3 DEF Pages, Unread
<1>5. listed' \in [Streams -> SUBSET Nat] /\ listed'[s] = page
      /\ \A x \in Streams : x # s => listed'[x] = listed[x]
  BY <1>1, <1>4 DEF InboxInv, RowTypes
<1>6. RowTypes' /\ OneAtATime' /\ OfItsUser'
  BY <1>2, <1>5 DEF InboxInv, RowTypes, OneAtATime, OfItsUser, Notes
<1>7. ASSUME NEW x \in asked' PROVE Reading(x)' /\ AfterList(x)'
  <2>1. CASE x = s
    <3>1. Reading(s)'
      BY <1>2 DEF List, Connected, Reading
    <3>2. AfterList(s)'
      BY <1>2, <1>4, <1>5 DEF AfterList, BehindFullPage, Unread
    <3> QED BY <2>1, <3>1, <3>2
  <2>2. CASE x # s
    <3>1. x \in asked /\ x \in Streams /\ Reading(x)
      BY <1>2, <2>2 DEF InboxInv, RowTypes, Unlisted
    <3>2. AfterList(x) /\ listed'[x] = listed[x]
      BY <1>5, <2>2, <3>1 DEF InboxInv, Unlisted
    <3> QED BY <1>2, <3>1, <3>2 DEF AfterList, BehindFullPage, Unread, Reading
  <2> QED BY <2>1, <2>2
<1> QED BY <1>6, <1>7 DEF InboxInv, Unlisted

\* What is marked as read needs no list any more.
LEMMA MarkInbox ==
    ASSUME Inv, InboxInv, NEW u \in Users, MarkAsRead(u)
    PROVE  InboxInv'
<1>1. /\ UNCHANGED <<rows, pending, asked, listed, noteUser, targets, since, user, pc>>
      /\ read \subseteq read'
  BY DEF MarkAsRead, vars, noteVars, openVars
<1>2. /\ listed \in [Streams -> SUBSET Nat]
      /\ \A s \in Streams : since[s] <= Len(noteUser)
      /\ \A s \in asked : Reading(s)
  BY DEF InboxInv, RowTypes, Unlisted
<1>3. /\ listed' \in [Streams -> SUBSET Nat]
      /\ \A s \in Streams : since'[s] <= Len(noteUser)
      /\ \A s \in asked' : /\ Reading(s)'
                           /\ since'[s] = since[s] /\ user'[s] = user[s] /\ listed'[s] = listed[s]
  BY <1>1, <1>2 DEF Reading
<1> QED BY <1>1, <1>3, SameInbox

\* The streams: a list is of its stream for as long as the stream is open.
LEMMA ServeInbox ==
    ASSUME Inv, InboxInv, ServeStreams
    PROVE  InboxInv'
<1>1. /\ UNCHANGED <<rows, read, pending>> /\ Serve
      /\ asked' = {s \in asked : pc'[s] # "leave"}
      /\ listed' = [s \in Streams |-> IF s \in asked' THEN listed[s] ELSE {}]
  BY DEF ServeStreams
<1>2. UNCHANGED noteUser /\ targets' \subseteq targets
  BY <1>1 DEF Serve, Issue, Send, Consume, Subscribe, Greet, Take, Write, Disconnect, Leave,
     Cleanup, Tick, noteVars
<1>3. Len(rows) \in Nat /\ Len(noteUser) \in Nat
  BY DEF Inv, TypeOK, InboxInv, RowTypes
<1>4. /\ listed' \in [Streams -> SUBSET Nat]
      /\ asked' \subseteq asked /\ asked \subseteq Streams
      /\ \A s \in asked' : listed'[s] = listed[s]
  BY <1>1 DEF InboxInv, RowTypes
<1>5. ASSUME NEW s \in Streams
      PROVE  /\ since'[s] \in {since[s], Len(noteUser), 0}
             /\ Reading(s) => \/ pc'[s] = "leave"
                              \/ Reading(s)' /\ since'[s] = since[s] /\ user'[s] = user[s]
  <2>1. CASE \/ \E v \in Users, t \in Tokens : Issue(v, t)
             \/ \E x \in Streams : Send(x)
             \/ Cleanup \/ Tick
    <3>1. UNCHANGED <<pc, since, user>>
      BY <2>1 DEF Issue, Send, Cleanup, Tick, openVars
    <3> QED BY <3>1 DEF Reading
  <2>2. ASSUME NEW x \in Streams,
               \/ \E t \in Tokens : Consume(x, t)
               \/ Subscribe(x) \/ Leave(x)
        PROVE  /\ since'[s] \in {since[s], Len(noteUser), 0}
               /\ Reading(s) => Reading(s)' /\ since'[s] = since[s] /\ user'[s] = user[s]
    <3>1. /\ pc[x] \in {"new", "subscribe", "leave"}
          /\ x # s => pc'[s] = pc[s] /\ since'[s] = since[s] /\ user'[s] = user[s]
          /\ since'[s] \in {since[s], Len(noteUser), 0}
      BY <2>2 DEF Consume, Subscribe, Leave, Goto, Forget, openVars, Inv, TypeOK
    <3> QED BY <3>1 DEF Reading
  <2>3. ASSUME NEW x \in Streams, Greet(x) \/ Take(x) \/ Write(x) \/ Disconnect(x)
        PROVE  /\ since'[s] = since[s] /\ user'[s] = user[s]
               /\ Reading(s) => Reading(s)' \/ pc'[s] = "leave"
    <3>1. /\ pc'[x] \in {"open", "write", "leave"}
          /\ x # s => pc'[s] = pc[s]
          /\ UNCHANGED <<since, user>>
      BY <2>3 DEF Greet, Take, Write, Disconnect, Goto, openVars, Inv, TypeOK
    <3> QED BY <3>1 DEF Reading
  <2> QED BY <1>1, <2>1, <2>2, <2>3 DEF Serve
<1>6. \A s \in Streams : since'[s] <= Len(noteUser)
  <2>1. \A s \in Streams : since[s] <= Len(noteUser)
    BY DEF InboxInv, RowTypes
  <2> QED BY <1>3, <1>5, <2>1
<1>7. \A s \in asked' :
         Reading(s)' /\ since'[s] = since[s] /\ user'[s] = user[s] /\ listed'[s] = listed[s]
  <2>1. \A s \in asked' : s \in asked /\ s \in Streams /\ Reading(s) /\ pc'[s] # "leave"
    BY <1>1, <1>4 DEF InboxInv, Unlisted
  <2> QED BY <1>4, <1>5, <2>1
<1> QED BY <1>1, <1>2, <1>4, <1>6, <1>7, SameInbox

\* The process ends, and with it every stream.
LEMMA EndInbox ==
    ASSUME Inv, InboxInv, EndProcess
    PROVE  InboxInv'
<1>1. /\ pending' = FALSE /\ asked' = {} /\ listed' = [s \in Streams |-> {}]
      /\ UNCHANGED <<rows, noteUser>>
      /\ since' = [s \in Streams |-> 0]
  BY DEF EndProcess, Restart, Forget
<1>2. Len(rows) \in Nat /\ Len(noteUser) \in Nat
  BY DEF Inv, TypeOK, InboxInv, RowTypes
<1>3. RowTypes' /\ OneAtATime' /\ OfItsUser'
  <2>1. \A s \in Streams : since'[s] = 0
    BY <1>1
  <2>2. RowTypes'
    BY <1>1, <1>2, <2>1 DEF InboxInv, RowTypes
  <2>3. OneAtATime' /\ OfItsUser'
    BY <1>1 DEF InboxInv, OneAtATime, OfItsUser, Notes
  <2> QED BY <2>2, <2>3
<1>4. Unlisted'
  BY <1>1 DEF Unlisted
<1> QED BY <1>3, <1>4 DEF InboxInv

\* A step of the inbox is a step of the hub, or none.
LEMMA InboxUsesHub ==
    ASSUME InboxInv, [InboxNext]_<<vars, inboxVars>>
    PROVE  [Next]_vars
<1>1. CASE BroadcastInserted
  <2>1. rows[Len(rows)].user \in Users
    <3>1. Len(rows) # 0
      BY <1>1 DEF BroadcastInserted, InboxInv, OneAtATime
    <3>2. Len(rows) \in 1 .. Len(rows)
      BY <3>1, RowParts
    <3> QED BY <3>2, RowParts
  <2> QED BY <1>1, <2>1 DEF BroadcastInserted, Next
<1>2. CASE ServeStreams \/ EndProcess
  BY <1>2 DEF ServeStreams, EndProcess, Next
<1>3. CASE (\E u \in Users : Insert(u) \/ MarkAsRead(u)) \/ (\E s \in Streams : List(s))
  BY <1>3 DEF Insert, MarkAsRead, List
<1> QED BY <1>1, <1>2, <1>3 DEF InboxNext

\* The two invariants are inductive together.
LEMMA InboxInductive ==
    Inv /\ InboxInv /\ [InboxNext]_<<vars, inboxVars>> => Inv' /\ InboxInv'
<1> SUFFICES ASSUME Inv, InboxInv, [InboxNext]_<<vars, inboxVars>>
             PROVE  Inv' /\ InboxInv'
  OBVIOUS
<1>1. Inv'
  BY InboxUsesHub, Inductive
<1>2. CASE UNCHANGED <<vars, inboxVars>>
  <2>1. /\ UNCHANGED <<rows, read, pending, asked, listed, noteUser, targets, since, user, pc>>
        /\ listed \in [Streams -> SUBSET Nat]
        /\ \A s \in Streams : since[s] <= Len(noteUser)
        /\ \A s \in asked : Reading(s)
    BY <1>2 DEF vars, inboxVars, noteVars, openVars, InboxInv, RowTypes, Unlisted
  <2>2. /\ targets' \subseteq targets /\ asked' \subseteq asked
        /\ listed' \in [Streams -> SUBSET Nat]
        /\ \A s \in Streams : since'[s] <= Len(noteUser)
        /\ \A s \in asked' : /\ Reading(s)'
                             /\ since'[s] = since[s] /\ user'[s] = user[s] /\ listed'[s] = listed[s]
    BY <2>1 DEF Reading
  <2> QED BY <1>1, <2>1, <2>2, SameInbox
<1> QED BY <1>1, <1>2, InsertInbox, BroadcastInbox, MarkInbox, ListInbox, ServeInbox, EndInbox
  DEF InboxNext

\* At first there are no rows.
LEMMA InboxInitially == InboxInit => Inv /\ InboxInv
<1> SUFFICES ASSUME InboxInit PROVE Inv /\ InboxInv
  OBVIOUS
<1>1. Inv
  BY Initially DEF InboxInit
<1>2. InboxInv
  <2>1. /\ rows = <<>> /\ Len(rows) = 0 /\ pending = FALSE /\ noteUser = <<>> /\ Len(noteUser) = 0
        /\ asked = {} /\ listed = [s \in Streams |-> {}] /\ since = [s \in Streams |-> 0]
    BY DEF InboxInit, Init
  <2>2. RowTypes
    BY <2>1 DEF RowTypes
  <2>3. OneAtATime /\ OfItsUser /\ Unlisted
    BY <2>1 DEF OneAtATime, OfItsUser, Unlisted
  <2> QED BY <2>2, <2>3 DEF InboxInv
<1> QED BY <1>1, <1>2

\* The invariant of the inbox and the hub under it.
THEOREM InboxInvariance == InboxSpec => [](Inv /\ InboxInv)
BY InboxInitially, InboxInductive, PTL DEF InboxSpec

\* The consumer broadcasts as NotificationHub lets it, so that everything
\* proved of the hub holds of a client that reconnects.
THEOREM InboxImplementsHub == InboxSpec => Spec
<1>1. InboxInit => Init
  BY DEF InboxInit
<1>2. InboxInv /\ [InboxNext]_<<vars, inboxVars>> => [Next]_vars
  BY InboxUsesHub
<1> QED BY <1>1, <1>2, InboxInvariance, PTL DEF InboxSpec, Spec

\* Between the list of a client and its stream there is no gap but what a full
\* page leaves behind.
THEOREM NoGapAfterTheList == InboxSpec => []NothingMissed
<1>1. Inv /\ InboxInv => NothingMissed
  <2> SUFFICES ASSUME Inv, InboxInv, NEW s \in asked, NEW i \in Unread(user[s]) \ listed[s]
               PROVE  \/ rows[i].note # 0 /\ Reached(rows[i].note, s)
                      \/ pending /\ i = Len(rows)
                      \/ BehindFullPage(i, s)
    BY DEF NothingMissed
  <2>1. /\ s \in Streams /\ since[s] \in Nat
        /\ i \in 1 .. Len(rows) /\ rows[i].user = user[s]
        /\ rows[i].note \in Nat
    <3>1. s \in Streams /\ since[s] \in Nat
      BY DEF Inv, TypeOK, InboxInv, RowTypes
    <3>2. i \in 1 .. Len(rows) /\ rows[i].user = user[s]
      BY DEF Unread
    <3> QED BY <3>1, <3>2, RowParts
  <2>2. CASE rows[i].note > since[s]
    <3>1. /\ rows[i].note # 0 /\ rows[i].note \in Notes
          /\ noteUser[rows[i].note] = user[s]
      BY <2>1, <2>2 DEF InboxInv, OfItsUser
    <3>2. pc[s] \in {"greet", "open", "write"}
      BY DEF InboxInv, Unlisted, Reading
    <3> QED BY <2>1, <2>2, <3>1, <3>2 DEF Inv, NotesAccounted, Reached
  <2> QED BY <2>1, <2>2 DEF InboxInv, Unlisted, AfterList
<1> QED BY <1>1, InboxInvariance, PTL
=============================================================================
