--------------------------- MODULE StreamingProofs ---------------------------
(***************************************************************************)
(* Proofs about Streaming for every set of keys, every number of versions, *)
(* every number of lines on the way and every setting of the times.        *)
(***************************************************************************)
EXTENDS Streaming, TLAPS

LEMMA Sums ==
  ASSUME NEW a \in Nat, NEW b \in Nat
  PROVE  /\ b <= a + b
         /\ \A w \in Nat : w <= a => w <= a + b
         /\ \A w, c \in Nat : w <= a + b /\ c >= b - 1 => w <= (a + 1) + c
  OBVIOUS

LEMMA AtLeastTwo ==
  ASSUME NEW n \in Nat, n >= 1, n # 1
  PROVE  n >= 2 /\ 1 \in 1..(n - 1)
  OBVIOUS

LEMMA Singleton ==
  ASSUME NEW a
  PROVE  <<a>> # <<>> /\ <<a>>[1] = a
  OBVIOUS

USE TimeAssumption, BoundAssumption, NullAssumption

-----------------------------------------------------------------------------
(* What is on a stream.                                                     *)

PutEvents == [name : {"put"}, data : Data]
ChangeEvents == [name : {"patch", "delete"}, key : Keys, item : Item]
StreamEvents == PutEvents \cup ChangeEvents
Names == {"put", "patch", "delete"}
PartSet == [of : StreamEvents, n : {1, 2}]
LineSet ==
    {Blank, Comment} \cup {EventLine(name) : name \in Names}
                     \cup {DataLine(part) : part \in PartSet}

First(ev) == [of |-> ev, n |-> 1]
Second(ev) == [of |-> ev, n |-> 2]

\* Line y may come after line x: an event is its name, its parts and a blank.
Follows(x, y) ==
    /\ x.tag = "event" => \E ev \in StreamEvents :
                            ev.name = x.name /\ y = DataLine(First(ev))
    /\ x.tag = "data" => IF x.part.of.name = "put" /\ x.part.n = 1
                         THEN y = DataLine(Second(x.part.of))
                         ELSE y = Blank
    /\ x.tag \in {"blank", "comment"} => y.tag \in {"event", "comment"}

WireShape ==
    /\ wire \in Seq(LineSet)
    /\ \A i \in 1..(Len(wire) - 1) : Follows(wire[i], wire[i + 1])
    /\ wire # <<>> => wire[Len(wire)].tag \in {"blank", "comment"}
    /\ \A i \in 2..Len(wire) : wire[i] # EventLine("put")
    /\ conn # "open" => wire = <<>>

ParserShape ==
    parser \in [buffer : {"empty", "partial", "garbage"}, eventName : Names \cup {Null},
                eventBody : Seq(PartSet)]

\* The parser has the name of the event it reads, unless uninitialized bytes
\* hid the line with the name.
NameIs(name) == parser.eventName = name \/ (parser.eventName = Null /\ ~clean)

Resting == parser.eventName = Null /\ parser.eventBody = <<>>

\* The parser has of an event what is no longer on the wire.
InStep ==
    conn = "open" =>
        /\ wire = <<>> => Resting
        /\ wire # <<>> /\ wire[1].tag \in {"event", "comment"} => Resting
        /\ wire # <<>> /\ wire[1].tag = "data" =>
             /\ NameIs(wire[1].part.of.name)
             /\ wire[1].part.n = 1 => parser.eventBody = <<>>
             /\ wire[1].part.n = 2 => /\ wire[1].part.of.name = "put"
                                      /\ parser.eventBody = <<First(wire[1].part.of)>>
        /\ wire # <<>> /\ wire[1].tag = "blank" =>
             \E ev \in StreamEvents : NameIs(ev.name) /\ parser.eventBody = Parts(ev)

\* Uninitialized bytes can hide only the first line of a stream.
BufferShape ==
    /\ conn \in {"none", "connecting"} => Resting
    /\ conn = "connecting" /\ clean => parser.buffer # "garbage"
    /\ conn = "open" /\ parser.buffer = "garbage"
         => ~clean /\ wire # <<>> /\ wire[1].tag = "event"

ServerShape == server \in [Keys -> Item]

Shape ==
    /\ WireShape /\ ParserShape /\ InStep /\ BufferShape /\ ServerShape
    /\ Len(parser.eventBody) <= 2

Times ==
    /\ attempts \in 0..MaxAttempts /\ waitLeft \in 0..MaxWait \cup {Null}
    /\ sinceStart \in 0..MinLife /\ sinceRead \in 0..ReadTimeout
    /\ idle \in 0..MaxWait

\* There is a wait between two connections, and none during one.
Waits ==
    /\ conn # "none" => active
    /\ active \/ attempts = 0 => waitLeft = Null
    /\ waitLeft # Null => \E w \in Backoffs(attempts) : w <= idle + waitLeft

-----------------------------------------------------------------------------
(* What a clean stream brings.                                              *)

OnWire(i, ev) == wire[i] = DataLine(First(ev))
Held(ev) == parser.eventBody # <<>> /\ parser.eventBody[1].of = ev
Latest(k) == Change(k, server[k])
Older(it, k) == it.version < server[k].version

\* The data that the changes on the way apply to: those of the put, as long as
\* it has not been handled, and then the store.
Base ==
    IF wire # <<>> /\ wire[1] = EventLine("put")
    THEN wire[2].part.of.data
    ELSE IF parser.eventName # "put"
    THEN store
    ELSE IF parser.eventBody = <<>>
    THEN wire[1].part.of.data
    ELSE parser.eventBody[1].of.data

\* A change on the way is the last one of its item, or that one comes later.
ChangesOrdered ==
    /\ \A i \in 1..Len(wire) : \A ev \in ChangeEvents :
         OnWire(i, ev) =>
            \/ ev.item = server[ev.key]
            \/ /\ Older(ev.item, ev.key)
               /\ \E j \in (i + 1)..Len(wire) : OnWire(j, Latest(ev.key))
    /\ \A ev \in ChangeEvents :
         Held(ev) =>
            \/ ev.item = server[ev.key]
            \/ /\ Older(ev.item, ev.key)
               /\ \E j \in 1..Len(wire) : OnWire(j, Latest(ev.key))

\* What the data lack is on the way, and they are not ahead of the service.
BaseComplete ==
    \A k \in Keys :
        \/ Live(Base[k]) = Live(server[k])
        \/ Held(Latest(k))
        \/ \E i \in 1..Len(wire) : OnWire(i, Latest(k))

BaseBehind ==
    \A k \in Keys : Base[k] # Null => Base[k] = server[k] \/ Older(Base[k], k)

Brought ==
    clean /\ conn = "open" => ChangesOrdered /\ BaseComplete /\ BaseBehind

IInv == TypeOK /\ Shape /\ Waits /\ Brought

-----------------------------------------------------------------------------
(* Lines and events.                                                        *)

LEMMA LineTags ==
  /\ Blank.tag = "blank" /\ Comment.tag = "comment"
  /\ \A name : EventLine(name).tag = "event" /\ EventLine(name).name = name
  /\ \A part : DataLine(part).tag = "data" /\ DataLine(part).part = part
  BY DEF Blank, Comment, EventLine, DataLine

LEMMA LineCases ==
  ASSUME NEW line \in LineSet
  PROVE  \/ line = Blank
         \/ line = Comment
         \/ \E name \in Names : line = EventLine(name)
         \/ \E part \in PartSet : line = DataLine(part)
  BY DEF LineSet

LEMMA LinesDiffer ==
  /\ Blank # Comment
  /\ \A name : Blank # EventLine(name) /\ Comment # EventLine(name)
  /\ \A part : Blank # DataLine(part) /\ Comment # DataLine(part)
  /\ \A name, part : EventLine(name) # DataLine(part)
  BY LineTags

LEMMA LineTypes ==
  /\ Blank \in LineSet /\ Comment \in LineSet
  /\ \A name \in Names : EventLine(name) \in LineSet
  /\ \A part \in PartSet : DataLine(part) \in LineSet
  BY DEF LineSet

LEMMA EventTypes ==
  /\ \A ev \in StreamEvents : ev.name \in Names /\ First(ev) \in PartSet /\ Second(ev) \in PartSet
  /\ \A ev \in ChangeEvents : ev.name # "put" /\ ev \in StreamEvents
  /\ \A ev \in StreamEvents : ev.name # "put" => ev \in ChangeEvents
  /\ \A ev \in StreamEvents : ev.name = "put" => ev \in PutEvents
  <1>1. ASSUME NEW ev \in StreamEvents PROVE ev.name \in Names
    BY DEF StreamEvents, PutEvents, ChangeEvents, Names
  <1>2. ASSUME NEW ev \in StreamEvents PROVE First(ev) \in PartSet /\ Second(ev) \in PartSet
    BY DEF First, Second, PartSet
  <1>3. ASSUME NEW ev \in ChangeEvents PROVE ev.name # "put" /\ ev \in StreamEvents
    BY DEF StreamEvents, ChangeEvents
  <1>4. ASSUME NEW ev \in StreamEvents, ev.name # "put" PROVE ev \in ChangeEvents
    BY <1>4 DEF StreamEvents, PutEvents
  <1>5. ASSUME NEW ev \in StreamEvents, ev.name = "put" PROVE ev \in PutEvents
    BY <1>5 DEF StreamEvents, ChangeEvents
  <1> QED BY <1>1, <1>2, <1>3, <1>4, <1>5

LEMMA PartIs ==
  /\ \A ev : First(ev).of = ev /\ First(ev).n = 1
  /\ \A ev : Second(ev).of = ev /\ Second(ev).n = 2
  BY DEF First, Second

\* A part is the first or the second one of its event.
LEMMA PartCases ==
  ASSUME NEW part \in PartSet
  PROVE  /\ part.of \in StreamEvents /\ part.n \in {1, 2}
         /\ part.n = 1 => part = First(part.of)
         /\ part.n = 2 => part = Second(part.of)
  BY DEF PartSet, First, Second

LEMMA PartsAre ==
  ASSUME NEW ev \in StreamEvents
  PROVE  /\ ev.name = "put" => Parts(ev) = <<First(ev), Second(ev)>>
         /\ ev.name # "put" => Parts(ev) = <<First(ev)>>
         /\ Parts(ev) \in Seq(PartSet) /\ Parts(ev) # <<>> /\ Len(Parts(ev)) <= 2
         /\ Parts(ev)[1] = First(ev)
  <1>1. First(ev) \in PartSet /\ Second(ev) \in PartSet
    BY EventTypes
  <1>2. CASE ev.name = "put"
    <2>1. Parts(ev) = <<First(ev), Second(ev)>>
      BY <1>2 DEF Parts, First, Second
    <2> QED BY <1>1, <1>2, <2>1
  <1>3. CASE ev.name # "put"
    <2>1. Parts(ev) = <<First(ev)>>
      BY <1>3 DEF Parts, First
    <2> QED BY <1>1, <1>3, <2>1
  <1> QED BY <1>2, <1>3

LEMMA ChangeType ==
  ASSUME NEW k \in Keys, NEW it \in Item
  PROVE  /\ Change(k, it) \in ChangeEvents
         /\ Change(k, it).key = k /\ Change(k, it).item = it
         /\ Change(k, it).name \in {"patch", "delete"}
  BY DEF Change, ChangeEvents, Item

LEMMA PutType ==
  ASSUME NEW d \in Data
  PROVE  Put(d) \in StreamEvents /\ Put(d).name = "put" /\ Put(d).data = d
  BY DEF Put, StreamEvents, PutEvents

\* The lines of an event, one by one.
LEMMA ChangeLines ==
  ASSUME NEW ev \in ChangeEvents
  PROVE  /\ Lines(ev) \in Seq(LineSet) /\ Len(Lines(ev)) = 3
         /\ Lines(ev)[1] = EventLine(ev.name)
         /\ Lines(ev)[2] = DataLine(First(ev))
         /\ Lines(ev)[3] = Blank
  <1>1. ev \in StreamEvents /\ ev.name \in Names /\ First(ev) \in PartSet /\ ev.name # "put"
    BY EventTypes
  <1>2. Parts(ev) = <<First(ev)>>
    BY <1>1, PartsAre
  <1> DEFINE body == [i \in 1..Len(Parts(ev)) |-> DataLine(Parts(ev)[i])]
  <1>3. body = <<DataLine(First(ev))>>
    BY <1>2
  <1>4. Lines(ev) = <<EventLine(ev.name)>> \o body \o <<Blank>>
    BY DEF Lines
  <1>5. /\ EventLine(ev.name) \in LineSet /\ DataLine(First(ev)) \in LineSet
        /\ Blank \in LineSet
    BY <1>1, LineTypes
  <1> HIDE DEF body
  <1> QED BY <1>3, <1>4, <1>5

LEMMA PutLines ==
  ASSUME NEW ev \in StreamEvents, ev.name = "put"
  PROVE  /\ Lines(ev) \in Seq(LineSet) /\ Len(Lines(ev)) = 4
         /\ Lines(ev)[1] = EventLine("put")
         /\ Lines(ev)[2] = DataLine(First(ev))
         /\ Lines(ev)[3] = DataLine(Second(ev))
         /\ Lines(ev)[4] = Blank
  <1>1. First(ev) \in PartSet /\ Second(ev) \in PartSet
    BY EventTypes
  <1>2. Parts(ev) = <<First(ev), Second(ev)>>
    BY PartsAre
  <1> DEFINE body == [i \in 1..Len(Parts(ev)) |-> DataLine(Parts(ev)[i])]
  <1>3. body = <<DataLine(First(ev)), DataLine(Second(ev))>>
    BY <1>2
  <1>4. Lines(ev) = <<EventLine("put")>> \o body \o <<Blank>>
    BY DEF Lines
  <1>5. /\ EventLine("put") \in LineSet /\ Blank \in LineSet
        /\ DataLine(First(ev)) \in LineSet /\ DataLine(Second(ev)) \in LineSet
    BY <1>1, LineTypes DEF Names
  <1> HIDE DEF body
  <1> QED BY <1>3, <1>4, <1>5

\* What LDi_processLine does with each kind of line.
LEMMA ParseLine ==
  ASSUME NEW p
  PROVE  /\ LDi_processLine(p, Blank)
              = [buffer |-> "empty", eventName |-> Null, eventBody |-> <<>>]
         /\ LDi_processLine(p, Comment)
              = [buffer |-> "empty", eventName |-> p.eventName, eventBody |-> p.eventBody]
         /\ \A name : LDi_processLine(p, EventLine(name))
              = [buffer |-> "empty", eventName |-> name, eventBody |-> p.eventBody]
         /\ \A part : LDi_processLine(p, DataLine(part))
              = [buffer |-> "empty", eventName |-> p.eventName,
                 eventBody |-> Append(p.eventBody, part)]
  BY LineTags, LinesDiffer DEF LDi_processLine

LEMMA EmptySeq ==
  ASSUME NEW S, NEW s \in Seq(S)
  PROVE  /\ s = <<>> <=> Len(s) = 0
         /\ Len(s) \in Nat
  OBVIOUS

LEMMA AppendOne ==
  ASSUME NEW a, NEW b
  PROVE  Append(<<a>>, b) = <<a, b>>
  <1> DEFINE s == Append(<<a>>, b)
             t == <<a, b>>
  <1>1. s \in Seq({a, b}) /\ Len(s) = 2 /\ s[1] = a /\ s[2] = b
    OBVIOUS
  <1>2. t \in Seq({a, b}) /\ Len(t) = 2 /\ t[1] = a /\ t[2] = b
    OBVIOUS
  <1>3. \A i \in 1..2 : s[i] = t[i]
    BY <1>1, <1>2
  <1> HIDE DEF s, t
  <1>4. s = [i \in 1..2 |-> s[i]] /\ t = [i \in 1..2 |-> t[i]]
    BY <1>1, <1>2
  <1>5. s = t
    BY <1>3, <1>4
  <1> QED BY <1>5 DEF s, t

LEMMA HeadTail ==
  ASSUME NEW S, NEW s \in Seq(S), s # <<>>
  PROVE  /\ Head(s) = s[1] /\ s[1] \in S /\ Len(s) \in Nat /\ Len(s) >= 1
         /\ Tail(s) \in Seq(S) /\ Len(Tail(s)) = Len(s) - 1
         /\ \A i \in 1..Len(Tail(s)) : Tail(s)[i] = s[i + 1]
         /\ Tail(s) = <<>> <=> Len(s) = 1
  <1>1. Len(s) \in Nat /\ Len(s) >= 1
    OBVIOUS
  <1>2. Head(s) = s[1] /\ s[1] \in S
    BY <1>1
  <1>3. /\ Tail(s) \in Seq(S) /\ Len(Tail(s)) = Len(s) - 1
        /\ \A i \in 1..Len(Tail(s)) : Tail(s)[i] = s[i + 1]
    OBVIOUS
  <1>4. Tail(s) = <<>> <=> Len(Tail(s)) = 0
    BY <1>3, EmptySeq
  <1> QED BY <1>1, <1>2, <1>3, <1>4

-----------------------------------------------------------------------------
(* The shape of the stream.                                                 *)

\* The rest of a stream is a stream, and goes on where its first line ended.
LEMMA TailShape ==
  ASSUME WireShape, wire # <<>>, wire' = Tail(wire), conn' = conn
  PROVE  /\ WireShape'
         /\ Len(wire') = Len(wire) - 1 /\ Len(wire) \in Nat /\ Len(wire) >= 1
         /\ \A i \in 1..Len(wire') : wire'[i] = wire[i + 1]
         /\ wire' = <<>> <=> Len(wire) = 1
         /\ wire' # <<>> => Follows(wire[1], wire'[1]) /\ wire'[1] # EventLine("put")
         /\ wire' # <<>> => 1 \in 1..Len(wire') /\ wire'[1] \in LineSet
         /\ wire' = <<>> => wire[1].tag \in {"blank", "comment"}
  <1>1. /\ wire \in Seq(LineSet) /\ conn = "open"
    BY DEF WireShape
  <1>2. /\ Len(wire) \in Nat /\ Len(wire) >= 1
        /\ wire' \in Seq(LineSet) /\ Len(wire') = Len(wire) - 1
        /\ \A i \in 1..Len(wire') : wire'[i] = wire[i + 1]
        /\ wire' = <<>> <=> Len(wire) = 1
    BY <1>1, HeadTail
  <1>3. \A i \in 1..(Len(wire') - 1) : Follows(wire'[i], wire'[i + 1])
    <2> SUFFICES ASSUME NEW i \in 1..(Len(wire') - 1)
                 PROVE  Follows(wire'[i], wire'[i + 1])
      OBVIOUS
    <2>1. i + 1 \in 1..(Len(wire) - 1) /\ i \in 1..Len(wire') /\ i + 1 \in 1..Len(wire')
      BY <1>2
    <2>2. wire'[i] = wire[i + 1] /\ wire'[i + 1] = wire[(i + 1) + 1]
      BY <1>2, <2>1
    <2> QED BY <2>1, <2>2 DEF WireShape
  <1>4. wire' # <<>> => wire'[Len(wire')].tag \in {"blank", "comment"}
    <2> SUFFICES ASSUME wire' # <<>> PROVE wire'[Len(wire')].tag \in {"blank", "comment"}
      OBVIOUS
    <2>1. Len(wire') \in 1..Len(wire') /\ Len(wire') + 1 = Len(wire)
      BY <1>2
    <2>2. wire'[Len(wire')] = wire[Len(wire)]
      BY <1>2, <2>1
    <2> QED BY <2>2 DEF WireShape
  <1>5. \A i \in 1..Len(wire') : wire'[i] # EventLine("put")
    BY <1>2 DEF WireShape
  <1>6. wire' # <<>> => Follows(wire[1], wire'[1])
    <2> SUFFICES ASSUME wire' # <<>> PROVE Follows(wire[1], wire'[1])
      OBVIOUS
    <2>1. 1 \in 1..(Len(wire) - 1) /\ 1 \in 1..Len(wire')
      BY <1>2
    <2>2. wire'[1] = wire[1 + 1]
      BY <1>2, <2>1
    <2> QED BY <2>1, <2>2 DEF WireShape
  <1>7. wire' # <<>> => 1 \in 1..Len(wire') /\ wire'[1] \in LineSet
    BY <1>2
  <1>8. wire' = <<>> => wire[1].tag \in {"blank", "comment"}
    BY <1>2 DEF WireShape
  <1>9. WireShape'
    BY <1>1, <1>2, <1>3, <1>4, <1>5 DEF WireShape
  <1> QED BY <1>2, <1>5, <1>6, <1>7, <1>8, <1>9

\* A stream may go on with another one that begins with an event.
LEMMA AppendShape ==
  ASSUME WireShape, conn = "open", conn' = conn, NEW ls \in Seq(LineSet), ls # <<>>,
         wire' = wire \o ls,
         \A i \in 1..(Len(ls) - 1) : Follows(ls[i], ls[i + 1]),
         ls[Len(ls)].tag \in {"blank", "comment"},
         ls[1].tag \in {"event", "comment"},
         \A i \in 1..Len(ls) : ls[i] # EventLine("put")
  PROVE  /\ WireShape'
         /\ Len(wire') = Len(wire) + Len(ls) /\ Len(wire) \in Nat /\ Len(ls) \in Nat
         /\ \A i \in 1..Len(wire) : wire'[i] = wire[i]
         /\ \A i \in 1..Len(ls) : wire'[i + Len(wire)] = ls[i]
         /\ wire' # <<>>
         /\ wire # <<>> => wire'[1] = wire[1]
         /\ wire = <<>> => wire'[1] = ls[1]
  <1>1. /\ wire \in Seq(LineSet) /\ Len(wire) \in Nat /\ Len(ls) \in Nat /\ Len(ls) >= 1
    BY DEF WireShape
  <1>2. /\ wire' \in Seq(LineSet) /\ Len(wire') = Len(wire) + Len(ls)
        /\ \A i \in 1..Len(wire) : wire'[i] = wire[i]
        /\ \A i \in 1..Len(ls) : wire'[i + Len(wire)] = ls[i]
    BY <1>1
  <1>3. ASSUME NEW i \in 1..(Len(wire') - 1)
        PROVE  Follows(wire'[i], wire'[i + 1])
    <2>1. CASE i < Len(wire)
      <3>1. i \in 1..Len(wire) /\ i + 1 \in 1..Len(wire) /\ i \in 1..(Len(wire) - 1)
        BY <1>1, <2>1
      <3> QED BY <1>2, <3>1 DEF WireShape
    <2>2. CASE i = Len(wire)
      <3>1. i \in 1..Len(wire) /\ 1 \in 1..Len(ls) /\ wire # <<>>
        BY <1>1, <2>2
      <3>2. wire'[i] = wire[i] /\ wire'[1 + Len(wire)] = ls[1]
        BY <1>2, <3>1
      <3>3. i + 1 = 1 + Len(wire)
        BY <1>1, <2>2
      <3>4. wire[i].tag \in {"blank", "comment"}
        BY <2>2, <3>1 DEF WireShape
      <3> QED BY <3>2, <3>3, <3>4 DEF Follows
    <2>3. CASE i > Len(wire)
      <3>1. PICK j \in 1..(Len(ls) - 1) : j = i - Len(wire)
        BY <1>1, <1>2, <2>3
      <3>2. j \in 1..Len(ls) /\ j + 1 \in 1..Len(ls) /\ i = j + Len(wire)
            /\ i + 1 = (j + 1) + Len(wire)
        BY <1>1, <3>1
      <3>3. wire'[i] = ls[j] /\ wire'[i + 1] = ls[j + 1]
        BY <1>2, <3>2
      <3> QED BY <3>1, <3>3
    <2> QED BY <1>1, <2>1, <2>2, <2>3
  <1>4. wire'[Len(wire')].tag \in {"blank", "comment"}
    <2>1. Len(ls) \in 1..Len(ls) /\ Len(wire') = Len(ls) + Len(wire)
      BY <1>1, <1>2
    <2> QED BY <1>2, <2>1
  <1>5. ASSUME NEW i \in 2..Len(wire') PROVE wire'[i] # EventLine("put")
    <2>1. CASE i <= Len(wire)
      <3>1. i \in 1..Len(wire) /\ i \in 2..Len(wire)
        BY <1>1, <2>1
      <3> QED BY <1>2, <3>1 DEF WireShape
    <2>2. CASE i > Len(wire)
      <3>1. PICK j \in 1..Len(ls) : j = i - Len(wire)
        BY <1>1, <1>2, <2>2
      <3>2. i = j + Len(wire)
        BY <1>1, <3>1
      <3> QED BY <1>2, <3>2
    <2> QED BY <1>1, <2>1, <2>2
  <1>6. wire' # <<>>
    BY <1>1, <1>2
  <1>7. (wire # <<>> => wire'[1] = wire[1]) /\ (wire = <<>> => wire'[1] = ls[1])
    <2>1. CASE wire # <<>>
      BY <1>1, <1>2, <2>1
    <2>2. CASE wire = <<>>
      <3>1. Len(wire) = 0 /\ 1 \in 1..Len(ls) /\ 1 + Len(wire) = 1
        BY <1>1, <2>2
      <3> QED BY <1>2, <2>2, <3>1
    <2> QED BY <2>1, <2>2
  <1>8. WireShape'
    BY <1>2, <1>3, <1>4, <1>5 DEF WireShape
  <1> QED BY <1>1, <1>2, <1>6, <1>7, <1>8

\* One line is read.
LEMMA ReadShape ==
  ASSUME Shape, conn = "open", wire # <<>>, wire' = Tail(wire),
         NEW line \in Received(parser, wire[1]), parser' = LDi_processLine(parser, line),
         UNCHANGED <<conn, clean, server>>
  PROVE  Shape'
  <1> USE DEF Shape
  <1>1. /\ WireShape'
        /\ wire' # <<>> => Follows(wire[1], wire'[1]) /\ wire'[1] \in LineSet
        /\ wire[1] \in LineSet
    BY TailShape, HeadTail DEF WireShape
  <1>2. line = wire[1] \/ (line = Comment /\ wire[1].tag = "event" /\ ~clean)
    BY DEF Received, BufferShape
  <1>3. parser'.buffer = "empty"
    BY DEF LDi_processLine
  <1>4. BufferShape' /\ ServerShape'
    BY <1>3 DEF BufferShape, ServerShape
  <1> DEFINE Goal == /\ InStep' /\ ParserShape' /\ Len(parser'.eventBody) <= 2
  <1> SUFFICES Goal
    BY <1>1, <1>4
  <1>5. ASSUME parser' = [buffer |-> "empty", eventName |-> Null, eventBody |-> <<>>],
               wire' # <<>> => wire'[1].tag \in {"event", "comment"}
        PROVE  Goal
    <2>1. Resting' /\ parser'.eventBody = <<>>
      BY <1>5 DEF Resting
    <2>2. InStep'
      BY <1>1, <1>5, <2>1, LineTags DEF InStep
    <2>3. ParserShape'
      BY <1>5 DEF ParserShape
    <2> QED BY <2>1, <2>2, <2>3
  <1>6. CASE wire[1] = Blank \/ wire[1] = Comment
    <2>1. line = wire[1]
      BY <1>2, <1>6, LineTags
    <2>2. wire' # <<>> => wire'[1].tag \in {"event", "comment"}
      BY <1>1, <1>6, LineTags DEF Follows
    <2>3. parser' = [buffer |-> "empty", eventName |-> Null, eventBody |-> <<>>]
      <3>1. CASE wire[1] = Blank
        BY <2>1, <3>1, ParseLine
      <3>2. CASE wire[1] = Comment
        <4>1. Resting
          BY <3>2, LineTags DEF InStep
        <4> QED BY <2>1, <3>2, <4>1, ParseLine DEF Resting
      <3> QED BY <1>6, <3>1, <3>2
    <2> QED BY <1>5, <2>2, <2>3
  <1>7. ASSUME NEW name \in Names, wire[1] = EventLine(name)
        PROVE  Goal
    <2>1. Resting /\ wire' # <<>>
      BY <1>7, LineTags, TailShape DEF InStep
    <2>2. PICK ev \in StreamEvents : ev.name = name /\ wire'[1] = DataLine(First(ev))
      BY <1>1, <1>7, <2>1, LineTags DEF Follows
    <2>3. PICK n \in Names \cup {Null} :
            /\ parser' = [buffer |-> "empty", eventName |-> n, eventBody |-> <<>>]
            /\ n = name \/ (n = Null /\ ~clean)
      <3>1. CASE line = wire[1]
        BY <1>7, <2>1, <3>1, ParseLine DEF Resting
      <3>2. CASE line # wire[1]
        BY <1>2, <2>1, <3>2, ParseLine DEF Resting
      <3> QED BY <3>1, <3>2
    <2>4. wire'[1].tag = "data" /\ wire'[1].part.n = 1 /\ wire'[1].part.of = ev
      <3>1. wire'[1].tag = "data" /\ wire'[1].part = First(ev)
        BY <2>2, LineTags
      <3> QED BY <3>1, PartIs
    <2>5. InStep'
      BY <2>1, <2>2, <2>3, <2>4 DEF InStep, NameIs
    <2>6. ParserShape'
      BY <2>3 DEF ParserShape
    <2> QED BY <2>3, <2>5, <2>6
  <1>8. ASSUME NEW part \in PartSet, wire[1] = DataLine(part)
        PROVE  Goal
    <2>1. /\ line = wire[1] /\ wire[1].tag = "data" /\ wire[1].part = part /\ wire' # <<>>
      BY <1>2, <1>8, LineTags, TailShape
    <2>2. PICK ev \in StreamEvents : ev = part.of
      BY PartCases
    <2>3. /\ NameIs(ev.name)
          /\ part.n = 1 => parser.eventBody = <<>>
          /\ part.n = 2 => ev.name = "put" /\ parser.eventBody = <<First(ev)>>
      BY <2>1, <2>2 DEF InStep
    <2>4. parser' = [buffer |-> "empty", eventName |-> parser.eventName,
                     eventBody |-> Append(parser.eventBody, part)]
      BY <1>8, <2>1, ParseLine
    <2>5. NameIs(ev.name)' /\ parser'.eventName \in Names \cup {Null}
      BY <2>3, <2>4 DEF NameIs, ParserShape
    <2>6. CASE ev.name = "put" /\ part.n = 1
      <3>1. parser'.eventBody = <<First(ev)>> /\ First(ev) \in PartSet
        <4>1. part = First(ev) /\ parser.eventBody = <<>>
          BY <2>2, <2>3, <2>6, PartCases
        <4>2. parser'.eventBody = Append(parser.eventBody, part)
          BY <2>4
        <4>3. Append(parser.eventBody, part) = <<First(ev)>>
          BY <4>1
        <4> QED BY <4>1, <4>2, <4>3
      <3>2. wire'[1] = DataLine(Second(ev))
        BY <1>1, <2>1, <2>2, <2>6 DEF Follows
      <3>3. wire'[1].tag = "data" /\ wire'[1].part.n = 2 /\ wire'[1].part.of = ev
        <4>1. wire'[1].tag = "data" /\ wire'[1].part = Second(ev)
          BY <3>2, LineTags
        <4> QED BY <4>1, PartIs
      <3>4. InStep'
        BY <2>1, <2>5, <2>6, <3>1, <3>3 DEF InStep
      <3>5. ParserShape' /\ Len(parser'.eventBody) <= 2
        BY <2>4, <2>5, <3>1 DEF ParserShape
      <3> QED BY <3>4, <3>5
    <2>7. CASE ~(ev.name = "put" /\ part.n = 1)
      <3>1. parser'.eventBody = Parts(ev)
        <4>0. parser'.eventBody = Append(parser.eventBody, part)
          BY <2>4
        <4>1. CASE part.n = 1
          <5>1. /\ Parts(ev) = <<First(ev)>> /\ part = First(ev)
                /\ parser.eventBody = <<>>
            BY <2>2, <2>3, <2>7, <4>1, PartsAre, PartCases
          <5>2. Append(parser.eventBody, part) = <<First(ev)>>
            BY <5>1
          <5> QED BY <4>0, <5>1, <5>2
        <4>2. CASE part.n = 2
          <5>1. /\ Parts(ev) = <<First(ev), Second(ev)>> /\ part = Second(ev)
                /\ parser.eventBody = <<First(ev)>>
            BY <2>2, <2>3, <4>2, PartsAre, PartCases
          <5>2. Append(parser.eventBody, part) = <<First(ev), Second(ev)>>
            BY <5>1, AppendOne
          <5> QED BY <4>0, <5>1, <5>2
        <4> QED BY <4>1, <4>2, PartCases
      <3>2. wire'[1] = Blank
        BY <1>1, <2>1, <2>2, <2>7 DEF Follows
      <3>3. InStep'
        BY <2>1, <2>5, <3>1, <3>2, LineTags DEF InStep
      <3>4. ParserShape' /\ Len(parser'.eventBody) <= 2
        BY <2>4, <2>5, <3>1, PartsAre DEF ParserShape
      <3> QED BY <3>3, <3>4
    <2> QED BY <2>6, <2>7
  <1> QED BY <1>1, <1>6, <1>7, <1>8, LineCases

\* Without an open stream there is little to say.
LEMMA ClosedShape ==
  ASSUME Shape, conn' # "open", wire' = <<>>, ParserShape', Len(parser'.eventBody) <= 2,
         ServerShape', conn' \in {"none", "connecting"} => Resting',
         conn' = "connecting" /\ clean' => parser'.buffer # "garbage"
  PROVE  Shape'
  <1>1. WireShape'
    <2>1. wire' \in Seq(LineSet) /\ Len(wire') = 0
      OBVIOUS
    <2> QED BY <2>1 DEF WireShape
  <1>2. InStep'
    BY DEF InStep
  <1>3. BufferShape'
    BY DEF BufferShape
  <1> QED BY <1>1, <1>2, <1>3 DEF Shape

LEMMA DestroyShape ==
  ASSUME Shape, parser' = LDSSEParserDestroy(parser)
  PROVE  /\ ParserShape' /\ Resting' /\ Len(parser'.eventBody) <= 2
         /\ parser'.buffer \in {"empty", "partial", "garbage"}
         /\ parser'.eventName = Null
  <1>1. PICK b \in {"empty", "garbage"} :
          parser' = [buffer |-> b, eventName |-> Null, eventBody |-> <<>>]
    BY DEF LDSSEParserDestroy
  <1>2. parser'.eventBody = <<>> /\ parser'.eventName = Null /\ parser'.buffer = b
    BY <1>1
  <1>3. ParserShape'
    BY <1>1 DEF ParserShape
  <1> QED BY <1>2, <1>3 DEF Resting

\* The waits that poll chooses from are in range.
LEMMA BackoffsType ==
  ASSUME NEW n
  PROVE  Backoffs(n) \subseteq 0..MaxWait
  BY DEF Backoffs

\* Everything but the stream: what each action does to the times.
LEMMA WaitStep ==
  ASSUME TypeOK, Waits,
         \/ \E code \in {0, 200, 404, 429, 503} : active /\ done(code)
         \/ PollWait \/ PollConnect \/ PollConnectFails \/ Tick
  PROVE  Waits' /\ Times'
  <1> USE DEF Times
  <1> DEFINE Goal == Waits' /\ Times'
  <1>1. /\ attempts \in 0..MaxAttempts /\ waitLeft \in 0..MaxWait \cup {Null}
        /\ sinceStart \in 0..MinLife /\ sinceRead \in 0..ReadTimeout
        /\ idle \in 0..MaxWait
    BY DEF TypeOK
  <1>2. Null \notin 0..MaxWait /\ 0 \in 0..MinLife /\ 0 \in 0..ReadTimeout /\ 0 \in 0..MaxWait
    OBVIOUS
  <1>3. ASSUME NEW code \in {0, 200, 404, 429, 503}, active, done(code)
        PROVE  Goal
    <2>1. waitLeft' = Null /\ conn' = "none" /\ idle' = 0
      BY <1>3 DEF done, Waits
    <2>2. attempts' \in 0..MaxAttempts
      BY <1>1, <1>3 DEF done, Attempts, Capped
    <2>3. Waits'
      BY <2>1 DEF Waits
    <2>4. sinceStart' = sinceStart /\ sinceRead' = sinceRead
      BY <1>3 DEF done
    <2> QED BY <1>1, <1>2, <2>1, <2>2, <2>3, <2>4
  <1>4. CASE PollWait
    <2>1. /\ ~active /\ ~active' /\ conn' = conn /\ attempts' = attempts /\ idle' = idle
          /\ attempts > 0 /\ waitLeft' \in Backoffs(attempts)
          /\ sinceStart' = sinceStart /\ sinceRead' = sinceRead
      BY <1>4 DEF PollWait, netVars, historyVars
    <2>2. waitLeft' \in 0..MaxWait
      BY <2>1, BackoffsType
    <2>3. waitLeft' <= idle' + waitLeft'
      <3>1. idle' \in Nat /\ waitLeft' \in Nat
        BY <1>1, <2>1, <2>2
      <3> QED BY <3>1, Sums
    <2>4. Waits'
      <3>1. ~(active' \/ attempts' = 0)
        BY <1>1, <2>1
      <3>2. conn' # "none" => active'
        BY <2>1 DEF Waits
      <3>3. \E w \in Backoffs(attempts') : w <= idle' + waitLeft'
        BY <2>1, <2>3
      <3> QED BY <3>1, <3>2, <3>3 DEF Waits
    <2> QED BY <1>1, <2>1, <2>2, <2>4
  <1>5. ASSUME MayConnect, EndWait, attempts' = attempts, idle' = idle,
               sinceRead' \in {0, sinceRead}, conn' # "none" => active'
        PROVE  Goal
    <2>1. waitLeft' = Null
      BY <1>1, <1>5 DEF EndWait, Waits
    <2>2. sinceStart' \in 0..MinLife
      BY <1>1, <1>2, <1>5 DEF EndWait
    <2>3. Waits'
      BY <1>5, <2>1 DEF Waits
    <2> QED BY <1>1, <1>2, <1>5, <2>1, <2>2, <2>3
  <1>6. CASE PollConnect
    BY <1>5, <1>6 DEF PollConnect
  <1>7. CASE PollConnectFails
    <2>1. conn' = conn /\ active' = active
      BY <1>7 DEF PollConnectFails, netVars
    <2> QED BY <1>5, <1>7, <2>1 DEF PollConnectFails, historyVars, Waits
  <1>8. CASE Tick
    <2>1. /\ conn' = conn /\ active' = active /\ attempts' = attempts
          /\ waitLeft' = IF waitLeft = Null \/ waitLeft = 0 THEN waitLeft ELSE waitLeft - 1
          /\ idle' = Capped(idle + 1, MaxWait)
          /\ sinceStart' = Capped(sinceStart + 1, MinLife)
          /\ sinceRead' = Capped(sinceRead + 1, ReadTimeout)
      BY <1>8 DEF Tick, netVars
    <2>2. idle' \in 0..MaxWait /\ sinceStart' \in 0..MinLife /\ sinceRead' \in 0..ReadTimeout
      BY <1>1, <2>1 DEF Capped
    <2>3. waitLeft' \in 0..MaxWait \cup {Null} /\ (waitLeft' = Null <=> waitLeft = Null)
      BY <1>1, <2>1
    <2>4. Waits'
      <3>1. /\ conn' # "none" => active'
            /\ active' \/ attempts' = 0 => waitLeft' = Null
        BY <2>1, <2>3 DEF Waits
      <3>2. ASSUME waitLeft' # Null
            PROVE  \E w \in Backoffs(attempts') : w <= idle' + waitLeft'
        <4>1. PICK w \in Backoffs(attempts) : w <= idle + waitLeft
          BY <2>3, <3>2 DEF Waits
        <4>2. w \in 0..MaxWait /\ waitLeft \in 0..MaxWait /\ waitLeft' \in 0..MaxWait
          BY <1>1, <2>3, <3>2, BackoffsType
        <4>3. w <= idle' + waitLeft'
          <5>1. CASE idle + 1 < MaxWait
            <6>1. idle' = idle + 1
              BY <2>1, <5>1 DEF Capped
            <6>2. waitLeft' >= waitLeft - 1
              BY <2>1, <4>2
            <6>3. idle \in Nat /\ w \in Nat /\ waitLeft \in Nat /\ waitLeft' \in Nat
              BY <1>1, <4>2
            <6> QED BY <4>1, <6>1, <6>2, <6>3, Sums
          <5>2. CASE ~(idle + 1 < MaxWait)
            <6>1. idle' = MaxWait
              BY <2>1, <5>2 DEF Capped
            <6>2. w \in Nat /\ w <= MaxWait /\ waitLeft' \in Nat
              BY <4>2
            <6> QED BY <6>1, <6>2, Sums
          <5> QED BY <5>1, <5>2
        <4> QED BY <2>1, <4>3
      <3> QED BY <3>1, <3>2 DEF Waits
    <2> QED BY <1>1, <2>1, <2>2, <2>3, <2>4
  <1> QED BY <1>3, <1>4, <1>6, <1>7, <1>8

LEMMA QuietTimes ==
  ASSUME TypeOK, Waits, UNCHANGED <<active, attempts, waitLeft, sinceStart, idle>>,
         sinceRead' \in {0, sinceRead}, conn' # "none" => conn # "none"
  PROVE  Waits' /\ Times'
  <1>1. Times
    BY DEF TypeOK, Times
  <1>2. sinceRead' \in 0..ReadTimeout
    BY <1>1 DEF Times
  <1>3. Times'
    BY <1>1, <1>2 DEF Times
  <1>4. Waits'
    BY DEF Waits
  <1> QED BY <1>3, <1>4

LEMMA SameShape ==
  ASSUME Shape, UNCHANGED <<conn, wire, parser, server, clean>>
  PROVE  Shape'
  BY DEF Shape, WireShape, ParserShape, InStep, NameIs, Resting, BufferShape, ServerShape

\* The actions of poll and of time.
LEMMA PollShape ==
  ASSUME TypeOK, Shape, Waits,
         \/ \E code \in {0, 200, 404, 429, 503} : active /\ done(code)
         \/ PollWait \/ PollConnect \/ PollConnectFails \/ Tick
  PROVE  Shape' /\ Len(wire') <= MaxLines
  <1>1. ASSUME NEW code \in {0, 200, 404, 429, 503}, done(code)
        PROVE  Shape' /\ Len(wire') <= MaxLines
    <2>1. conn' = "none" /\ wire' = <<>> /\ parser' = LDSSEParserDestroy(parser)
          /\ server' = server
      BY <1>1 DEF done
    <2>2. ServerShape'
      BY <2>1 DEF Shape, ServerShape
    <2> QED BY <2>1, <2>2, ClosedShape, DestroyShape
  <1>2. CASE PollWait \/ PollConnectFails \/ Tick
    <2>1. UNCHANGED <<conn, wire, parser, server, clean>>
      BY <1>2 DEF PollWait, PollConnectFails, Tick, netVars, historyVars
    <2> QED BY <2>1, SameShape DEF TypeOK
  <1>3. CASE PollConnect
    <2>1. /\ ~active /\ conn' = "connecting" /\ wire' = wire /\ parser' = parser
          /\ server' = server /\ clean' = (parser.buffer = "empty")
      BY <1>3 DEF PollConnect, MayConnect
    <2>2. conn = "none"
      BY <2>1 DEF Waits
    <2>3. wire' = <<>> /\ Resting' /\ Len(parser'.eventBody) <= 2
      BY <2>1, <2>2 DEF Shape, WireShape, BufferShape, Resting
    <2>4. ParserShape' /\ ServerShape'
      BY <2>1 DEF Shape, ParserShape, ServerShape
    <2>5. conn' = "connecting" /\ clean' => parser'.buffer # "garbage"
      BY <2>1
    <2> QED BY <2>1, <2>3, <2>4, <2>5, ClosedShape
  <1> QED BY <1>1, <1>2, <1>3

LEMMA LiveType ==
  ASSUME NEW d \in Data
  PROVE  LiveData(d) \in Data
  BY DEF LiveData, Live, Data

LEMMA ServerData == ServerShape => server \in Data
  BY DEF ServerShape, Data

\* The service starts the stream.
LEMMA AcceptShape ==
  ASSUME Shape, Accept
  PROVE  Shape' /\ Len(wire') <= MaxLines
  <1>1. /\ conn = "connecting" /\ conn' = "open" /\ parser' = parser /\ server' = server
        /\ clean' = clean
    BY DEF Accept, historyVars
  <1>2. LiveData(server) \in Data
    BY LiveType, ServerData DEF Shape
  <1>3. PICK ev \in StreamEvents : ev = Put(LiveData(server)) /\ ev.name = "put"
    BY <1>2, PutType
  <1>4. /\ wire' \in Seq(LineSet) /\ Len(wire') = 4
        /\ wire'[1] = EventLine("put")
        /\ wire'[2] = DataLine(First(ev))
        /\ wire'[3] = DataLine(Second(ev))
        /\ wire'[4] = Blank
    BY <1>3, PutLines DEF Accept
  <1>5. /\ Follows(wire'[1], wire'[2]) /\ Follows(wire'[2], wire'[3])
        /\ Follows(wire'[3], wire'[4])
    <2>1. Follows(wire'[1], wire'[2])
      BY <1>3, <1>4, LineTags DEF Follows
    <2>2. Follows(wire'[2], wire'[3])
      <3>1. wire'[2].tag = "data" /\ wire'[2].part = First(ev)
        BY <1>4, LineTags
      <3>2. wire'[2].part.of = ev /\ wire'[2].part.n = 1
        BY <3>1, PartIs
      <3> QED BY <1>3, <1>4, <3>1, <3>2 DEF Follows
    <2>3. Follows(wire'[3], wire'[4])
      <3>1. wire'[3].tag = "data" /\ wire'[3].part = Second(ev)
        BY <1>4, LineTags
      <3>2. wire'[3].part.of = ev /\ wire'[3].part.n = 2
        BY <3>1, PartIs
      <3> QED BY <1>3, <1>4, <3>1, <3>2 DEF Follows
    <2> QED BY <2>1, <2>2, <2>3
  <1>6. WireShape'
    <2>1. \A i \in 1..(Len(wire') - 1) : i = 1 \/ i = 2 \/ i = 3
      BY <1>4
    <2>2. \A i \in 1..(Len(wire') - 1) : Follows(wire'[i], wire'[i + 1])
      BY <1>5, <2>1
    <2>3. \A i \in 2..Len(wire') : wire'[i] # EventLine("put")
      <3>1. \A i \in 2..Len(wire') : i = 2 \/ i = 3 \/ i = 4
        BY <1>4
      <3> QED BY <1>4, <3>1, LinesDiffer
    <2>4. wire'[Len(wire')].tag = "blank"
      BY <1>4, LineTags
    <2> QED BY <1>1, <1>4, <2>2, <2>3, <2>4 DEF WireShape
  <1>7. wire' # <<>> /\ wire'[1].tag = "event"
    BY <1>4, LineTags
  <1>8. Resting'
    BY <1>1 DEF Shape, BufferShape, Resting
  <1>9. InStep'
    BY <1>7, <1>8 DEF InStep
  <1>10. BufferShape'
    BY <1>1, <1>7 DEF Shape, BufferShape
  <1>11. ParserShape' /\ ServerShape' /\ Len(parser'.eventBody) <= 2
    BY <1>1 DEF Shape, ParserShape, ServerShape
  <1> QED BY <1>4, <1>6, <1>9, <1>10, <1>11 DEF Shape

\* Lines are added to an open stream.
LEMMA SendShape ==
  ASSUME Shape, conn = "open", UNCHANGED <<conn, parser, clean>>, ServerShape',
         WireShape', wire' # <<>>,
         wire # <<>> => wire'[1] = wire[1],
         wire = <<>> => wire'[1].tag \in {"event", "comment"}
  PROVE  Shape'
  <1>1. InStep'
    <2>1. CASE wire # <<>>
      BY <2>1 DEF Shape, InStep, NameIs, Resting
    <2>2. CASE wire = <<>>
      <3>1. Resting'
        BY <2>2 DEF Shape, InStep, Resting
      <3> QED BY <2>2, <3>1 DEF InStep
    <2> QED BY <2>1, <2>2
  <1>2. BufferShape'
    BY DEF Shape, BufferShape
  <1>3. ParserShape' /\ Len(parser'.eventBody) <= 2
    BY DEF Shape, ParserShape
  <1> QED BY <1>1, <1>2, <1>3 DEF Shape

LEMMA HeartbeatShape ==
  ASSUME Shape, Heartbeat
  PROVE  Shape' /\ Len(wire') <= MaxLines
  <1>1. /\ conn = "open" /\ wire = <<>> /\ wire' = <<Comment>>
        /\ UNCHANGED <<conn, parser, clean, server>>
    BY DEF Heartbeat, historyVars
  <1>2. /\ wire' \in Seq(LineSet) /\ Len(wire') = 1 /\ wire'[1] = Comment
    BY <1>1, LineTypes
  <1>3. wire'[1].tag = "comment" /\ wire' # <<>> /\ Comment # EventLine("put")
    <2>1. wire' # <<>>
      BY <1>2, EmptySeq
    <2> QED BY <1>2, <2>1, LineTags, LinesDiffer
  <1>4. WireShape'
    BY <1>1, <1>2, <1>3 DEF WireShape
  <1>5. ServerShape'
    BY <1>1 DEF Shape, ServerShape
  <1> QED BY <1>1, <1>2, <1>3, <1>4, <1>5, SendShape

\* The item that the service changes.
LEMMA NextItem ==
  ASSUME ServerShape, NEW k \in Keys, NEW deleted \in BOOLEAN, ServerChange(k, deleted)
  PROVE  \E it \in Item :
           /\ it.version = server[k].version + 1 /\ server' = [server EXCEPT ![k] = it]
           /\ server[k] \in Item
           /\ wire' = IF conn = "open" THEN wire \o Lines(Change(k, it)) ELSE wire
  <1> DEFINE it == [version |-> server[k].version + 1, deleted |-> deleted]
  <1>1. server[k] \in Item
    BY DEF ServerShape
  <1>2. server[k].version \in 1..MaxVersion /\ server[k].version < MaxVersion
    BY <1>1 DEF ServerChange, Item
  <1>3. server[k].version + 1 \in 1..MaxVersion
    BY <1>2
  <1>4. it \in Item /\ it.version = server[k].version + 1
    BY <1>3 DEF Item
  <1>5. /\ server' = [server EXCEPT ![k] = it]
        /\ wire' = IF conn = "open" THEN wire \o Lines(Change(k, it)) ELSE wire
    BY DEF ServerChange
  <1> HIDE DEF it
  <1> QED BY <1>1, <1>4, <1>5

\* The stream after a change that was sent on it.
LEMMA ChangeSent ==
  ASSUME Shape, conn = "open", conn' = conn, NEW ev \in ChangeEvents,
         wire' = wire \o Lines(ev)
  PROVE  /\ WireShape'
         /\ Len(wire') = Len(wire) + 3 /\ Len(wire) \in Nat
         /\ \A i \in 1..Len(wire) : wire'[i] = wire[i]
         /\ wire'[Len(wire) + 1] = EventLine(ev.name)
         /\ wire'[Len(wire) + 2] = DataLine(First(ev))
         /\ wire'[Len(wire) + 3] = Blank
         /\ wire' # <<>>
         /\ wire # <<>> => wire'[1] = wire[1]
         /\ wire = <<>> => wire'[1] = EventLine(ev.name)
  <1>1. PICK ls \in Seq(LineSet) :
          /\ ls = Lines(ev) /\ Len(ls) = 3
          /\ ls[1] = EventLine(ev.name) /\ ls[2] = DataLine(First(ev)) /\ ls[3] = Blank
    BY ChangeLines
  <1>2. ev \in StreamEvents /\ ev.name # "put"
    BY EventTypes
  <1>3. ls # <<>>
    BY <1>1, EmptySeq
  <1>4. Follows(ls[1], ls[2])
    BY <1>1, <1>2, LineTags DEF Follows
  <1>5. Follows(ls[2], ls[3])
    <2>1. ls[2].tag = "data" /\ ls[2].part = First(ev)
      BY <1>1, LineTags
    <2>2. ls[2].part.of = ev
      BY <2>1, PartIs
    <2> QED BY <1>1, <1>2, <2>1, <2>2 DEF Follows
  <1>6. \A i \in 1..(Len(ls) - 1) : Follows(ls[i], ls[i + 1])
    <2>1. \A i \in 1..(Len(ls) - 1) : i = 1 \/ i = 2
      BY <1>1
    <2> QED BY <1>4, <1>5, <2>1
  <1>7. ls[Len(ls)].tag \in {"blank", "comment"} /\ ls[1].tag \in {"event", "comment"}
    BY <1>1, LineTags
  <1>8. \A i \in 1..Len(ls) : ls[i] # EventLine("put")
    <2>1. \A i \in 1..Len(ls) : i = 1 \/ i = 2 \/ i = 3
      BY <1>1
    <2>2. EventLine(ev.name) # EventLine("put")
      BY <1>2, LineTags
    <2> QED BY <1>1, <2>1, <2>2, LinesDiffer
  <1>9. wire' = wire \o ls
    BY <1>1
  <1>10. /\ WireShape'
         /\ Len(wire') = Len(wire) + Len(ls) /\ Len(wire) \in Nat /\ Len(ls) \in Nat
         /\ \A i \in 1..Len(wire) : wire'[i] = wire[i]
         /\ \A i \in 1..Len(ls) : wire'[i + Len(wire)] = ls[i]
         /\ wire' # <<>>
         /\ wire # <<>> => wire'[1] = wire[1]
         /\ wire = <<>> => wire'[1] = ls[1]
    BY <1>3, <1>6, <1>7, <1>8, <1>9, AppendShape DEF Shape
  <1>11. /\ 1 \in 1..Len(ls) /\ 2 \in 1..Len(ls) /\ 3 \in 1..Len(ls)
         /\ 1 + Len(wire) = Len(wire) + 1 /\ 2 + Len(wire) = Len(wire) + 2
         /\ 3 + Len(wire) = Len(wire) + 3
    BY <1>1, <1>10
  <1>12. /\ wire'[1 + Len(wire)] = ls[1] /\ wire'[2 + Len(wire)] = ls[2]
         /\ wire'[3 + Len(wire)] = ls[3]
    BY <1>10, <1>11
  <1> QED BY <1>1, <1>10, <1>11, <1>12

LEMMA ChangeShape ==
  ASSUME TypeOK, Shape, NEW k \in Keys, NEW deleted \in BOOLEAN, ServerChange(k, deleted)
  PROVE  Shape' /\ Len(wire') <= MaxLines
  <1>1. UNCHANGED <<conn, parser, clean>> /\ Len(wire) + 3 <= MaxLines
    BY DEF ServerChange, Room, historyVars
  <1>2. PICK it \in Item :
          /\ server' = [server EXCEPT ![k] = it]
          /\ wire' = IF conn = "open" THEN wire \o Lines(Change(k, it)) ELSE wire
    BY NextItem DEF Shape
  <1>3. ServerShape'
    BY <1>2 DEF Shape, ServerShape
  <1>4. CASE conn = "open"
    <2>1. PICK ev \in ChangeEvents : ev = Change(k, it)
      BY ChangeType
    <2>2. wire' = wire \o Lines(ev) /\ conn' = conn
      BY <1>1, <1>2, <1>4, <2>1
    <2>3. /\ WireShape' /\ Len(wire') = Len(wire) + 3 /\ wire' # <<>>
          /\ wire # <<>> => wire'[1] = wire[1]
          /\ wire = <<>> => wire'[1] = EventLine(ev.name)
      BY <1>4, <2>2, ChangeSent
    <2>4. wire = <<>> => wire'[1].tag \in {"event", "comment"}
      BY <2>3, LineTags
    <2> QED BY <1>1, <1>3, <1>4, <2>3, <2>4, SendShape
  <1>5. CASE conn # "open"
    <2>1. wire' = wire /\ wire = <<>>
      BY <1>2, <1>5 DEF Shape, WireShape
    <2>2. ParserShape' /\ Len(parser'.eventBody) <= 2
      BY <1>1 DEF Shape, ParserShape
    <2>3. conn' \in {"none", "connecting"} => Resting'
      BY <1>1 DEF Shape, BufferShape, Resting
    <2>4. conn' = "connecting" /\ clean' => parser'.buffer # "garbage"
      BY <1>1 DEF Shape, BufferShape
    <2> QED BY <1>1, <1>3, <1>5, <2>1, <2>2, <2>3, <2>4, ClosedShape
  <1> QED BY <1>4, <1>5

\* The actions that end a stream and are not those of poll.
LEMMA EndShape ==
  ASSUME Shape, LDi_onEventFails \/ NetworkThreadEnds \/ ConnectionDies
  PROVE  Shape' /\ Len(wire') <= MaxLines
  <1>1. wire' = <<>> /\ server' = server /\ Len(wire') = 0
    BY DEF LDi_onEventFails, NetworkThreadEnds, ConnectionDies
  <1>2. ServerShape'
    BY <1>1 DEF Shape, ServerShape
  <1>3. CASE LDi_onEventFails
    <2>1. conn' = "aborted"
          /\ parser' = [buffer |-> "partial", eventName |-> Null, eventBody |-> <<>>]
      BY <1>3 DEF LDi_onEventFails, DispatchFailed
    <2>2. ParserShape' /\ Len(parser'.eventBody) <= 2
      BY <2>1 DEF ParserShape
    <2> QED BY <1>1, <1>2, <2>1, <2>2, ClosedShape
  <1>4. CASE NetworkThreadEnds
    <2>1. conn' = "none" /\ parser' = LDSSEParserDestroy(parser)
      BY <1>4 DEF NetworkThreadEnds
    <2> QED BY <1>1, <1>2, <2>1, ClosedShape, DestroyShape
  <1>5. CASE ConnectionDies
    <2>1. conn' = "dead" /\ parser' = parser
      BY <1>5 DEF ConnectionDies
    <2>2. ParserShape' /\ Len(parser'.eventBody) <= 2
      BY <2>1 DEF Shape, ParserShape
    <2> QED BY <1>1, <1>2, <2>1, <2>2, ClosedShape
  <1> QED BY <1>3, <1>4, <1>5

\* The body of an error answer leaves at most a part of a line in the parser.
LEMMA ErrorBodyShape ==
  ASSUME TypeOK, Shape, ReceiveErrorBody
  PROVE  Shape' /\ Len(wire') <= MaxLines
  <1>1. /\ conn' = "refused" /\ wire' = wire /\ server' = server /\ wire = <<>>
    BY DEF ReceiveErrorBody, Shape, WireShape
  <1>2. /\ parser'.eventBody = parser.eventBody /\ ParserShape'
    <2>1. CASE parser' = PartOfLine(parser)
      BY <2>1 DEF PartOfLine, Shape, ParserShape
    <2>2. CASE parser' = LDi_processLine(parser, Comment)
      BY <2>2, LineTags DEF LDi_processLine, Comment, Blank, Shape, ParserShape
    <2> QED BY <2>1, <2>2 DEF ReceiveErrorBody
  <1>3. ServerShape' /\ Len(parser'.eventBody) <= 2
    BY <1>1, <1>2 DEF Shape, ServerShape
  <1>4. Shape'
    BY <1>1, <1>2, <1>3, ClosedShape
  <1> QED BY <1>1, <1>4 DEF TypeOK

\* The actions of the write callback that go on with the stream.
LEMMA ReceiveShape ==
  ASSUME TypeOK, Shape, ReceivePart \/ ReceiveLine \/ LDi_onEvent
  PROVE  Shape' /\ Len(wire') <= MaxLines
  <1>1. conn = "open" /\ wire # <<>> /\ UNCHANGED <<conn, clean, server>>
    BY DEF ReceivePart, ReceiveLine, LDi_onEvent, historyVars
  <1>2. CASE ReceivePart
    <2>1. /\ wire' = wire /\ parser.buffer = "empty"
          /\ parser' = [parser EXCEPT !.buffer = "partial"]
      BY <1>2 DEF ReceivePart, PartOfLine
    <2>2. /\ parser'.buffer = "partial" /\ parser'.eventName = parser.eventName
          /\ parser'.eventBody = parser.eventBody /\ ParserShape'
      BY <2>1 DEF Shape, ParserShape
    <2>3. InStep'
      BY <1>1, <2>1, <2>2 DEF Shape, InStep, NameIs, Resting
    <2>4. BufferShape'
      BY <1>1, <2>2 DEF BufferShape
    <2>5. WireShape' /\ ServerShape'
      BY <1>1, <2>1 DEF Shape, WireShape, ServerShape
    <2> QED BY <2>1, <2>2, <2>3, <2>4, <2>5 DEF Shape, TypeOK
  <1>3. wire \in Seq(LineSet)
    BY DEF Shape, WireShape
  <1>4. ASSUME wire' = Tail(wire) PROVE Len(wire') <= MaxLines
    <2>1. Len(wire') = Len(wire) - 1 /\ Len(wire) \in Nat /\ Len(wire) <= MaxLines
      BY <1>1, <1>3, <1>4, HeadTail DEF TypeOK
    <2> QED BY <2>1
  <1>5. Head(wire) = wire[1]
    BY <1>1, <1>3, HeadTail
  <1>6. CASE ReceiveLine
    <2>1. /\ wire' = Tail(wire)
          /\ \E line \in Received(parser, wire[1]) : parser' = LDi_processLine(parser, line)
      BY <1>5, <1>6 DEF ReceiveLine
    <2> QED BY <1>1, <1>4, <2>1, ReadShape
  <1>7. CASE LDi_onEvent
    <2>1. /\ wire' = Tail(wire) /\ wire[1] \in Received(parser, wire[1])
          /\ parser' = LDi_processLine(parser, wire[1])
      BY <1>5, <1>7 DEF LDi_onEvent, Received
    <2> QED BY <1>1, <1>4, <2>1, ReadShape
  <1> QED BY <1>2, <1>6, <1>7

\* The event that the parser dispatches.
LEMMA SentType ==
  ASSUME Shape, conn = "open", wire # <<>>, Dispatches(parser, Head(wire))
  PROVE  /\ wire[1] = Blank /\ Head(wire) = wire[1]
         /\ Sent \in StreamEvents /\ parser.eventName = Sent.name
         /\ parser.eventBody = Parts(Sent) /\ parser.eventBody # <<>>
         /\ parser.eventBody[1] = First(Sent)
  <1>1. wire \in Seq(LineSet)
    BY DEF Shape, WireShape
  <1>2. /\ Head(wire) = wire[1] /\ wire[1] = Blank /\ wire[1].tag = "blank"
        /\ parser.eventName # Null /\ parser.eventBody # <<>>
    BY <1>1, HeadTail, LineTags DEF Dispatches
  <1>3. PICK ev \in StreamEvents : NameIs(ev.name) /\ parser.eventBody = Parts(ev)
    BY <1>2 DEF Shape, InStep
  <1>4. parser.eventBody[1] = First(ev)
    BY <1>3, PartsAre
  <1>5. Sent = ev
    BY <1>4, PartIs DEF Sent
  <1>6. parser.eventName = ev.name
    BY <1>2, <1>3 DEF NameIs
  <1> QED BY <1>2, <1>3, <1>4, <1>5, <1>6

LEMMA HandleType ==
  ASSUME TypeOK, Shape, LDi_onEvent
  PROVE  store' \in Data
  <1>1. Sent \in StreamEvents /\ Handle(Sent)
    BY SentType DEF LDi_onEvent
  <1>2. PICK ev \in StreamEvents : ev = Sent /\ Handle(ev)
    BY <1>1
  <1>3. store \in Data
    BY DEF TypeOK
  <1>4. CASE ev.name = "put"
    <2>1. ev \in PutEvents /\ store' = ev.data
      BY <1>2, <1>4, EventTypes DEF Handle
    <2> QED BY <2>1 DEF PutEvents
  <1>5. CASE ev.name # "put"
    <2>1. /\ ev \in ChangeEvents
          /\ store' = IF Newer(ev.key, ev.item) THEN [store EXCEPT ![ev.key] = ev.item]
                                                ELSE store
      BY <1>2, <1>5, EventTypes DEF Handle
    <2>2. ev.key \in Keys /\ ev.item \in Item
      BY <2>1 DEF ChangeEvents
    <2> QED BY <1>3, <2>1, <2>2 DEF Data
  <1> QED BY <1>4, <1>5

Flags ==
    active \in BOOLEAN /\ permanentFailure \in BOOLEAN /\ running \in BOOLEAN
    /\ clean \in BOOLEAN

LEMMA TypeParts ==
  ASSUME Shape', Len(wire') <= MaxLines, Times', Flags', store' \in Data,
         conn' \in {"none", "connecting", "refused", "open", "dead", "aborted"}
  PROVE  TypeOK'
  <1>1. /\ parser'.buffer \in {"empty", "partial", "garbage"}
        /\ parser'.eventName \in {Null, "put", "patch", "delete"}
        /\ Len(parser'.eventBody) <= 2
    BY DEF Shape, ParserShape, Names
  <1>2. server' \in Data
    BY DEF Shape, ServerShape, Data
  <1> QED BY <1>1, <1>2 DEF Times, Flags, TypeOK

LEMMA FlagsStep ==
  ASSUME TypeOK, [Next]_vars
  PROVE  Flags' /\ conn' \in {"none", "connecting", "refused", "open", "dead", "aborted"}
  <1>1. Flags /\ conn \in {"none", "connecting", "refused", "open", "dead", "aborted"}
    BY DEF TypeOK, Flags
  <1> USE DEF Flags
  <1>2. ASSUME NEW code, done(code)
        PROVE  Flags' /\ conn' \in {"none", "connecting", "refused", "open", "dead", "aborted"}
    <2>1. /\ conn' = "none" /\ active' = FALSE /\ running' = running /\ clean' = clean
      BY <1>2 DEF done
    <2>2. permanentFailure' \in BOOLEAN
      BY <1>2, Zenon DEF done
    <2> QED BY <1>1, <2>1, <2>2
  <1>3. CASE PollTimeout
    BY <1>2, <1>3 DEF PollTimeout
  <1>4. CASE \E code \in {0, 200, 404, 429, 503} : Finish(code)
    BY <1>2, <1>4 DEF Finish
  <1>5. CASE PollWait \/ PollConnectFails \/ Tick
    BY <1>1, <1>5 DEF PollWait, PollConnectFails, Tick, netVars, historyVars
  <1>6. CASE PollConnect
    BY <1>1, <1>6 DEF PollConnect
  <1>7. CASE Receive
    BY <1>1, <1>7 DEF Receive, ReceivePart, ReceiveLine, LDi_onEvent, LDi_onEventFails,
                      ReceiveErrorBody, retryVars, historyVars
  <1>8. CASE NetworkThreadEnds
    BY <1>1, <1>8 DEF NetworkThreadEnds, retryVars, historyVars
  <1>9. CASE Service
    BY <1>1, <1>9 DEF Service, Accept, ServerChange, Heartbeat, ConnectionDies,
                      retryVars, historyVars
  <1>10. CASE UNCHANGED vars
    BY <1>1, <1>10 DEF vars, netVars, retryVars, historyVars
  <1> QED BY <1>3, <1>4, <1>5, <1>6, <1>7, <1>8, <1>9, <1>10 DEF Next, Poll

\* One step of Next on the types, the shape of the stream and the waits.
LEMMA StepShape ==
  ASSUME TypeOK, Shape, Waits, [Next]_vars
  PROVE  TypeOK' /\ Shape' /\ Waits'
  <1> DEFINE Goal == Shape' /\ Len(wire') <= MaxLines /\ Waits' /\ Times' /\ store' \in Data
  <1> SUFFICES Goal
    BY FlagsStep, TypeParts
  <1>1. store \in Data
    BY DEF TypeOK
  <1>2. CASE \/ PollTimeout \/ PollWait \/ PollConnect \/ PollConnectFails \/ Tick
             \/ \E code \in {0, 200, 404, 429, 503} : Finish(code)
    <2>1. \/ \E code \in {0, 200, 404, 429, 503} : active /\ done(code)
          \/ PollWait \/ PollConnect \/ PollConnectFails \/ Tick
      BY <1>2 DEF PollTimeout, TimedOut, Finish, Ends, Waits
    <2>2. store' = store
      BY <1>2 DEF PollTimeout, Finish, done, PollWait, PollConnect, PollConnectFails, Tick
    <2> QED BY <1>1, <2>1, <2>2, PollShape, WaitStep
  <1>3. ASSUME UNCHANGED <<active, retryVars, historyVars>>, sinceRead' \in {0, sinceRead},
               conn' # "none" => conn # "none"
        PROVE  Waits' /\ Times'
    BY <1>3, QuietTimes DEF retryVars, historyVars
  <1>4. CASE ReceivePart \/ ReceiveLine \/ LDi_onEvent
    <2>1. Shape' /\ Len(wire') <= MaxLines
      BY <1>4, ReceiveShape
    <2>2. /\ UNCHANGED <<active, retryVars, historyVars>> /\ sinceRead' \in {0, sinceRead}
          /\ conn' # "none" => conn # "none"
      BY <1>4 DEF ReceivePart, ReceiveLine, LDi_onEvent
    <2>3. store' \in Data
      <3>1. CASE LDi_onEvent
        BY <3>1, HandleType
      <3>2. CASE ReceivePart \/ ReceiveLine
        BY <1>1, <3>2 DEF ReceivePart, ReceiveLine
      <3> QED BY <1>4, <3>1, <3>2
    <2> QED BY <1>3, <2>1, <2>2, <2>3
  <1>5. CASE LDi_onEventFails \/ NetworkThreadEnds \/ ConnectionDies
    <2>1. Shape' /\ Len(wire') <= MaxLines
      BY <1>5, EndShape
    <2>2. /\ UNCHANGED <<active, retryVars, historyVars, store>> /\ sinceRead' \in {0, sinceRead}
          /\ conn' # "none" => conn # "none"
      BY <1>5 DEF LDi_onEventFails, NetworkThreadEnds, ConnectionDies
    <2> QED BY <1>1, <1>3, <2>1, <2>2
  <1>6. CASE Accept \/ Heartbeat
    <2>1. Shape' /\ Len(wire') <= MaxLines
      BY <1>6, AcceptShape, HeartbeatShape
    <2>2. /\ UNCHANGED <<active, retryVars, historyVars, store>> /\ sinceRead' \in {0, sinceRead}
          /\ conn' # "none" => conn # "none"
      BY <1>6 DEF Accept, Heartbeat
    <2> QED BY <1>1, <1>3, <2>1, <2>2
  <1>7. ASSUME NEW k \in Keys, NEW deleted \in BOOLEAN, ServerChange(k, deleted)
        PROVE  Goal
    <2>1. Shape' /\ Len(wire') <= MaxLines
      BY <1>7, ChangeShape
    <2>2. /\ UNCHANGED <<active, retryVars, historyVars, store>> /\ sinceRead' \in {0, sinceRead}
          /\ conn' # "none" => conn # "none"
      BY <1>7 DEF ServerChange
    <2> QED BY <1>1, <1>3, <2>1, <2>2
  <1>8. CASE UNCHANGED vars
    <2>1. UNCHANGED <<conn, wire, parser, server, clean, store>>
      BY <1>8 DEF vars, netVars, historyVars
    <2>2. /\ UNCHANGED <<active, retryVars, historyVars>> /\ sinceRead' \in {0, sinceRead}
          /\ conn' # "none" => conn # "none"
      BY <1>8 DEF vars, netVars, historyVars
    <2>3. Shape' /\ Len(wire') <= MaxLines
      BY <2>1, SameShape DEF TypeOK
    <2> QED BY <1>1, <1>3, <2>1, <2>2, <2>3
  <1>9. CASE ReceiveErrorBody
    <2>1. Shape' /\ Len(wire') <= MaxLines
      BY <1>9, ErrorBodyShape
    <2>2. /\ UNCHANGED <<active, retryVars, historyVars, store>> /\ sinceRead' \in {0, sinceRead}
          /\ conn' # "none" => conn # "none"
      BY <1>9 DEF ReceiveErrorBody
    <2> QED BY <1>1, <1>3, <2>1, <2>2
  <1> QED BY <1>2, <1>4, <1>5, <1>6, <1>7, <1>8, <1>9 DEF Next, Poll, Receive, Service

LEMMA InitShape == Init => TypeOK /\ Shape /\ Waits
  <1> SUFFICES ASSUME Init PROVE TypeOK /\ Shape /\ Waits
    OBVIOUS
  <1>1. /\ parser = [buffer |-> "empty", eventName |-> Null, eventBody |-> <<>>]
        /\ wire = <<>> /\ conn = "none"
    BY DEF Init, LDSSEParserInitialize
  <1>2. ServerShape
    <2>1. [version |-> 1, deleted |-> FALSE] \in Item
      BY DEF Item
    <2> QED BY <2>1 DEF Init, ServerShape
  <1>3. Shape
    <2>1. WireShape
      <3>1. wire \in Seq(LineSet) /\ Len(wire) = 0
        BY <1>1
      <3> QED BY <1>1, <3>1 DEF WireShape
    <2>2. ParserShape /\ Len(parser.eventBody) <= 2
      BY <1>1 DEF ParserShape
    <2>3. InStep /\ BufferShape
      BY <1>1 DEF InStep, BufferShape, Resting
    <2> QED BY <1>2, <2>1, <2>2, <2>3 DEF Shape
  <1>4. Waits
    BY <1>1 DEF Init, Waits
  <1>5. TypeOK
    <2>1. /\ parser.buffer = "empty" /\ parser.eventName = Null
          /\ Len(parser.eventBody) = 0 /\ Len(wire) = 0
      BY <1>1
    <2>2. server \in Data
      BY <1>2, ServerData
    <2>3. store \in Data
      BY DEF Init, Data
    <2>4. Times
      BY DEF Init, Times
    <2>5. Flags
      BY DEF Init, Flags
    <2> QED BY <1>1, <2>1, <2>2, <2>3, <2>4, <2>5 DEF TypeOK, Times, Flags
  <1> QED BY <1>3, <1>4, <1>5

-----------------------------------------------------------------------------
(* Types and waits.                                                         *)

\* The types of the streaming context hold for every setting of the times, for
\* every number of keys and versions and every length of the stream: the parser
\* never collects more than the parts of one event, the attempts and the ages
\* stay in range.
THEOREM TypeCorrect == Spec => []TypeOK
  <1>1. Init => TypeOK /\ Shape /\ Waits
    BY InitShape
  <1>2. TypeOK /\ Shape /\ Waits /\ [Next]_vars => (TypeOK /\ Shape /\ Waits)'
    BY StepShape
  <1> QED BY <1>1, <1>2, PTL DEF Spec

\* What poll of src/streaming.c promises the service: after a failure it does
\* not connect again before the shortest backoff of this number of attempts is
\* over, whatever the service, the network and the clock do in between.
THEOREM BackoffKept == Spec => BacksOff
  <1> DEFINE Connects ==
        conn # "connecting" /\ conn' = "connecting" /\ attempts > 0
          => \E w \in Backoffs(attempts) : idle >= w
  <1>1. Init => TypeOK /\ Shape /\ Waits
    BY InitShape
  <1>2. TypeOK /\ Shape /\ Waits /\ [Next]_vars => (TypeOK /\ Shape /\ Waits)'
    BY StepShape
  <1>3. TypeOK /\ Waits /\ [Next]_vars => [Connects]_vars
    <2> SUFFICES ASSUME TypeOK, Waits, Next, conn # "connecting", conn' = "connecting",
                        attempts > 0
                 PROVE  \E w \in Backoffs(attempts) : idle >= w
      BY DEF vars
    <2>1. PollConnect
      BY DEF Next, Poll, PollTimeout, PollWait, PollConnectFails, Receive, ReceivePart,
             ReceiveLine, LDi_onEvent, LDi_onEventFails, ReceiveErrorBody, Finish, done, NetworkThreadEnds,
             Service, Accept, ServerChange, Heartbeat, ConnectionDies, Tick, netVars
    <2>2. attempts \in 0..MaxAttempts /\ idle \in 0..MaxWait
      BY DEF TypeOK
    <2>3. waitLeft = 0
      BY <2>1, <2>2 DEF PollConnect, MayConnect
    <2>4. PICK w \in Backoffs(attempts) : w <= idle + 0
      BY <2>3 DEF Waits
    <2>5. w \in 0..MaxWait
      BY BackoffsType
    <2>6. idle >= w
      BY <2>2, <2>4, <2>5
    <2> QED BY <2>6
  <1> QED BY <1>1, <1>2, <1>3, PTL DEF Spec, BacksOff

-----------------------------------------------------------------------------
(* What the lines that are read and sent do to what is on the way.          *)

LEMMA PartLines ==
  /\ \A a, b : DataLine(First(a)) = DataLine(First(b)) => a = b
  /\ \A a, b : DataLine(Second(a)) # DataLine(First(b))
  <1>1. ASSUME NEW a, NEW b, DataLine(First(a)) = DataLine(First(b)) PROVE a = b
    <2>1. First(a) = First(b)
      BY <1>1, LineTags
    <2> QED BY <2>1, PartIs
  <1>2. ASSUME NEW a, NEW b PROVE DataLine(Second(a)) # DataLine(First(b))
    <2>1. DataLine(Second(a)).part.n = 2 /\ DataLine(First(b)).part.n = 1
      <3>1. DataLine(Second(a)).part = Second(a) /\ DataLine(First(b)).part = First(b)
        BY LineTags
      <3> QED BY <3>1, PartIs
    <2> QED BY <2>1
  <1> QED BY <1>1, <1>2

\* Where the data are that the changes apply to.
LEMMA BaseCases ==
  ASSUME Shape, conn = "open"
  PROVE  \/ /\ Base = store /\ parser.eventName # "put"
            /\ wire # <<>> => wire[1] # EventLine("put")
         \/ \E ev \in PutEvents :
              /\ Base = ev.data
              /\ \/ /\ wire # <<>> /\ Len(wire) \in Nat /\ Len(wire) >= 2
                    /\ wire[1] = EventLine("put") /\ wire[2] = DataLine(First(ev))
                 \/ /\ wire # <<>> /\ wire[1] = DataLine(First(ev))
                    /\ parser.eventName = "put" /\ parser.eventBody = <<>>
                 \/ /\ wire # <<>> /\ wire[1].tag \in {"data", "blank"}
                    /\ parser.eventName = "put"
                    /\ parser.eventBody # <<>> /\ parser.eventBody[1] = First(ev)
  <1> DEFINE Goal ==
        \/ /\ Base = store /\ parser.eventName # "put"
           /\ wire # <<>> => wire[1] # EventLine("put")
        \/ \E ev \in PutEvents :
             /\ Base = ev.data
             /\ \/ /\ wire # <<>> /\ Len(wire) \in Nat /\ Len(wire) >= 2
                   /\ wire[1] = EventLine("put") /\ wire[2] = DataLine(First(ev))
                \/ /\ wire # <<>> /\ wire[1] = DataLine(First(ev))
                   /\ parser.eventName = "put" /\ parser.eventBody = <<>>
                \/ /\ wire # <<>> /\ wire[1].tag \in {"data", "blank"}
                   /\ parser.eventName = "put"
                   /\ parser.eventBody # <<>> /\ parser.eventBody[1] = First(ev)
  <1>1. wire \in Seq(LineSet) /\ Len(wire) \in Nat /\ Null # "put"
    BY DEF Shape, WireShape
  <1>2. CASE wire # <<>> /\ wire[1] = EventLine("put")
    <2>1. wire[1].tag = "event" /\ wire[1].name = "put" /\ Len(wire) >= 1
      BY <1>1, <1>2, LineTags, HeadTail
    <2>2. Len(wire) # 1
      BY <1>2, <2>1 DEF Shape, WireShape
    <2>3. Len(wire) >= 2 /\ 1 \in 1..(Len(wire) - 1)
      BY <1>1, <2>1, <2>2, AtLeastTwo
    <2>4. Follows(wire[1], wire[1 + 1])
      BY <2>3 DEF Shape, WireShape
    <2>5. PICK ev \in StreamEvents : ev.name = "put" /\ wire[2] = DataLine(First(ev))
      BY <2>1, <2>4 DEF Follows
    <2>6. wire[2].part = First(ev) /\ ev \in PutEvents
      BY <2>5, LineTags, EventTypes
    <2>7. wire[2].part.of = ev
      BY <2>6, PartIs
    <2>8. Base = ev.data
      BY <1>2, <2>7 DEF Base
    <2> QED BY <1>1, <1>2, <2>3, <2>5, <2>6, <2>8
  <1>3. CASE ~(wire # <<>> /\ wire[1] = EventLine("put")) /\ parser.eventName # "put"
    BY <1>3 DEF Base
  <1>4. CASE ~(wire # <<>> /\ wire[1] = EventLine("put")) /\ parser.eventName = "put"
    <2>1. wire # <<>> /\ wire[1].tag \notin {"event", "comment"}
      BY <1>1, <1>4 DEF Shape, InStep, Resting
    <2>2. wire[1] \in LineSet
      BY <1>1, <2>1, HeadTail
    <2>3. wire[1] = Blank \/ \E part \in PartSet : wire[1] = DataLine(part)
      BY <2>1, <2>2, LineCases, LineTags
    <2>4. CASE wire[1] = Blank
      <3>1. PICK ev \in StreamEvents : NameIs(ev.name) /\ parser.eventBody = Parts(ev)
        BY <2>1, <2>4, LineTags DEF Shape, InStep
      <3>2. ev.name = "put" /\ ev \in PutEvents
        BY <1>1, <1>4, <3>1, EventTypes DEF NameIs
      <3>3. parser.eventBody # <<>> /\ parser.eventBody[1] = First(ev)
        BY <3>1, PartsAre
      <3>4. parser.eventBody[1].of = ev
        BY <3>3, PartIs
      <3>5. Base = ev.data
        BY <1>4, <3>3, <3>4 DEF Base
      <3> QED BY <1>4, <2>1, <2>4, <3>2, <3>3, <3>5, LineTags
    <2>5. ASSUME NEW part \in PartSet, wire[1] = DataLine(part)
          PROVE  Goal
      <3>1. wire[1].tag = "data" /\ wire[1].part = part
        BY <2>5, LineTags
      <3>2. PICK ev \in StreamEvents : ev = part.of
        BY PartCases
      <3>3. /\ NameIs(ev.name)
            /\ part.n = 1 => parser.eventBody = <<>>
            /\ part.n = 2 => parser.eventBody = <<First(ev)>>
        BY <2>1, <3>1, <3>2 DEF Shape, InStep
      <3>4. ev.name = "put" /\ ev \in PutEvents
        BY <1>1, <1>4, <3>3, EventTypes DEF NameIs
      <3>5. CASE part.n = 1
        <4>1. part = First(ev) /\ parser.eventBody = <<>>
          BY <3>2, <3>3, <3>5, PartCases
        <4>2. Base = ev.data
          BY <1>4, <3>1, <3>2, <4>1 DEF Base
        <4> QED BY <1>4, <2>1, <2>5, <3>4, <4>1, <4>2
      <3>6. CASE part.n = 2
        <4>1. parser.eventBody # <<>> /\ parser.eventBody[1] = First(ev)
          BY <3>3, <3>6, Singleton
        <4>2. parser.eventBody[1].of = ev
          BY <4>1, PartIs
        <4>3. Base = ev.data
          BY <1>4, <4>1, <4>2 DEF Base
        <4> QED BY <1>4, <2>1, <3>1, <3>4, <4>1, <4>3
      <3> QED BY <3>5, <3>6, PartCases
    <2> QED BY <2>3, <2>4, <2>5
  <1> QED BY <1>2, <1>3, <1>4

LEMMA BaseType ==
  ASSUME TypeOK, Shape, conn = "open"
  PROVE  Base \in Data
  <1>1. store \in Data
    BY DEF TypeOK
  <1>2. \A ev \in PutEvents : ev.data \in Data
    BY DEF PutEvents
  <1> QED BY <1>1, <1>2, BaseCases

\* The order of the changes when the first line is read.
LEMMA ShiftOrdered ==
  ASSUME Shape, ChangesOrdered, wire # <<>>, wire' = Tail(wire), conn' = conn,
         server' = server,
         \A ev \in ChangeEvents : Held(ev)' => Held(ev) \/ OnWire(1, ev),
         \A x, y \in ChangeEvents : ~(OnWire(1, x) /\ Held(y))
  PROVE  ChangesOrdered'
  <1>1. /\ Len(wire') = Len(wire) - 1 /\ Len(wire) \in Nat /\ Len(wire) >= 1
        /\ \A i \in 1..Len(wire') : wire'[i] = wire[i + 1]
    BY TailShape DEF Shape
  <1>2. ASSUME NEW ev \in ChangeEvents, NEW i \in 0..Len(wire), NEW j \in (i + 1)..Len(wire),
               j # 1, OnWire(j, Latest(ev.key))
        PROVE  /\ j - 1 \in 1..Len(wire') /\ j - 1 \in i..Len(wire')
               /\ OnWire(j - 1, Latest(ev.key))'
    <2>1. j - 1 \in 1..Len(wire') /\ j - 1 \in i..Len(wire') /\ (j - 1) + 1 = j
      BY <1>1, <1>2
    <2>2. wire'[j - 1] = wire[j]
      BY <1>1, <2>1
    <2> QED BY <1>2, <2>1, <2>2 DEF OnWire, Latest
  <1>3. ASSUME NEW i \in 1..Len(wire'), NEW ev \in ChangeEvents, OnWire(i, ev)'
        PROVE  \/ ev.item = server'[ev.key]
               \/ /\ Older(ev.item, ev.key)'
                  /\ \E j \in (i + 1)..Len(wire') : OnWire(j, Latest(ev.key))'
    <2>1. OnWire(i + 1, ev) /\ i + 1 \in 1..Len(wire)
      BY <1>1, <1>3 DEF OnWire
    <2>2. CASE ev.item = server[ev.key]
      BY <2>2
    <2>3. CASE ev.item # server[ev.key]
      <3>1. PICK j \in ((i + 1) + 1)..Len(wire) : OnWire(j, Latest(ev.key))
        BY <2>1, <2>3 DEF ChangesOrdered
      <3>2. i + 1 \in 0..Len(wire) /\ j # 1
        BY <1>1, <2>1
      <3>3. j - 1 \in (i + 1)..Len(wire') /\ OnWire(j - 1, Latest(ev.key))'
        BY <1>2, <3>1, <3>2
      <3>4. Older(ev.item, ev.key)
        BY <2>1, <2>3 DEF ChangesOrdered
      <3>5. Older(ev.item, ev.key)'
        BY <3>4 DEF Older
      <3> QED BY <3>3, <3>5
    <2> QED BY <2>2, <2>3
  <1>4. ASSUME NEW ev \in ChangeEvents, Held(ev)'
        PROVE  \/ ev.item = server'[ev.key]
               \/ /\ Older(ev.item, ev.key)'
                  /\ \E j \in 1..Len(wire') : OnWire(j, Latest(ev.key))'
    <2>1. CASE ev.item = server[ev.key]
      BY <2>1
    <2>2. CASE ev.item # server[ev.key]
      <3>1. /\ Older(ev.item, ev.key)
            /\ \E j \in 1..Len(wire) : j # 1 /\ OnWire(j, Latest(ev.key))
        <4>1. CASE Held(ev)
          <5>1. PICK j \in 1..Len(wire) : OnWire(j, Latest(ev.key))
            BY <2>2, <4>1 DEF ChangesOrdered
          <5>2. Latest(ev.key) \in ChangeEvents
            <6>1. ev.key \in Keys /\ server[ev.key] \in Item
              BY DEF Shape, ServerShape, ChangeEvents
            <6> QED BY <6>1, ChangeType DEF Latest
          <5>3. j # 1
            BY <4>1, <5>1, <5>2
          <5> QED BY <2>2, <4>1, <5>1, <5>3 DEF ChangesOrdered
        <4>2. CASE OnWire(1, ev)
          <5>1. 1 \in 1..Len(wire) /\ 1 + 1 = 2
            BY <1>1
          <5>2. /\ Older(ev.item, ev.key)
                /\ \E j \in 2..Len(wire) : OnWire(j, Latest(ev.key))
            BY <2>2, <4>2, <5>1 DEF ChangesOrdered
          <5> QED BY <5>2
        <4> QED BY <1>4, <4>1, <4>2
      <3>2. PICK j \in 1..Len(wire) : j # 1 /\ OnWire(j, Latest(ev.key))
        BY <3>1
      <3>3. 0 \in 0..Len(wire) /\ j \in (0 + 1)..Len(wire)
        BY <1>1
      <3>4. j - 1 \in 1..Len(wire') /\ OnWire(j - 1, Latest(ev.key))'
        BY <1>2, <3>2, <3>3
      <3>5. Older(ev.item, ev.key)'
        BY <3>1 DEF Older
      <3> QED BY <3>4, <3>5
    <2> QED BY <2>1, <2>2
  <1> QED BY <1>3, <1>4 DEF ChangesOrdered

\* What the data lack when the first line is read and the data stay.
LEMMA ShiftComplete ==
  ASSUME Shape, BaseComplete, BaseBehind, wire # <<>>, wire' = Tail(wire), conn' = conn,
         server' = server, Base' = Base,
         \A ev \in ChangeEvents : Held(ev) \/ OnWire(1, ev) => Held(ev)'
  PROVE  BaseComplete' /\ BaseBehind'
  <1>1. /\ Len(wire') = Len(wire) - 1 /\ Len(wire) \in Nat /\ Len(wire) >= 1
        /\ \A i \in 1..Len(wire') : wire'[i] = wire[i + 1]
    BY TailShape DEF Shape
  <1>2. BaseBehind'
    BY DEF BaseBehind, Older
  <1>3. ASSUME NEW k \in Keys
        PROVE  \/ Live(Base'[k]) = Live(server'[k])
               \/ Held(Latest(k))'
               \/ \E i \in 1..Len(wire') : OnWire(i, Latest(k))'
    <2>1. PICK x \in ChangeEvents : x = Latest(k)
      BY ChangeType DEF Latest, Shape, ServerShape
    <2>2. Latest(k)' = x
      BY <2>1 DEF Latest
    <2>3. CASE Live(Base[k]) = Live(server[k])
      BY <2>3
    <2>4. CASE Held(x)
      <3>1. Held(x)'
        BY <2>4
      <3> QED BY <2>2, <3>1 DEF Held
    <2>5. ASSUME NEW i \in 1..Len(wire), OnWire(i, x)
          PROVE  Held(Latest(k))' \/ \E j \in 1..Len(wire') : OnWire(j, Latest(k))'
      <3>1. CASE i = 1
        <4>1. Held(x)'
          BY <2>5, <3>1
        <4> QED BY <2>2, <4>1 DEF Held
      <3>2. CASE i # 1
        <4>1. i - 1 \in 1..Len(wire') /\ (i - 1) + 1 = i
          BY <1>1, <3>2
        <4>2. wire'[i - 1] = DataLine(First(x))
          BY <1>1, <2>5, <4>1 DEF OnWire
        <4> QED BY <2>2, <4>1, <4>2 DEF OnWire
      <3> QED BY <3>1, <3>2
    <2> QED BY <2>1, <2>3, <2>4, <2>5 DEF BaseComplete
  <1> QED BY <1>2, <1>3 DEF BaseComplete

\* A line other than the blank one at the end of an event is read.
LEMMA ReadBrought ==
  ASSUME TypeOK, Shape, Shape', conn = "open", conn' = conn, clean, wire # <<>>,
         ChangesOrdered, BaseComplete, BaseBehind, wire' = Tail(wire), wire[1] # Blank,
         parser' = LDi_processLine(parser, wire[1]), UNCHANGED <<server, store>>
  PROVE  ChangesOrdered' /\ BaseComplete' /\ BaseBehind'
  <1>1. /\ wire \in Seq(LineSet) /\ wire[1] \in LineSet
        /\ wire' # <<>> => wire'[1] # EventLine("put") /\ wire'[1] = wire[2]
        /\ wire' = <<>> => wire[1].tag \in {"blank", "comment"}
        /\ wire' # <<>> => Follows(wire[1], wire'[1])
    <2>1. /\ wire \in Seq(LineSet) /\ wire[1] \in LineSet
      BY HeadTail DEF Shape, WireShape
    <2>2. /\ \A i \in 1..Len(wire') : wire'[i] = wire[i + 1]
          /\ wire' # <<>> => 1 \in 1..Len(wire')
          /\ wire' # <<>> => wire'[1] # EventLine("put")
          /\ wire' = <<>> => wire[1].tag \in {"blank", "comment"}
          /\ wire' # <<>> => Follows(wire[1], wire'[1])
      BY TailShape DEF Shape
    <2>3. wire' # <<>> => wire'[1] = wire[1 + 1]
      BY <2>2
    <2> QED BY <2>1, <2>2, <2>3
  <1> DEFINE Moves ==
        /\ Base' = Base
        /\ \A ev \in ChangeEvents : Held(ev)' => Held(ev) \/ OnWire(1, ev)
        /\ \A ev \in ChangeEvents : Held(ev) \/ OnWire(1, ev) => Held(ev)'
        /\ \A x, y \in ChangeEvents : ~(OnWire(1, x) /\ Held(y))
  <1> SUFFICES Moves
    BY ShiftOrdered, ShiftComplete
  <1>2. CASE wire[1] = Comment
    <2>1. Resting
      BY <1>2, LineTags DEF Shape, InStep
    <2>2. parser'.eventName = Null /\ parser'.eventBody = <<>>
      <3>1. parser' = [buffer |-> "empty", eventName |-> parser.eventName,
                       eventBody |-> parser.eventBody]
        BY <1>2, ParseLine
      <3> QED BY <2>1, <3>1 DEF Resting
    <2>3. Base' = Base
      BY <1>1, <1>2, <2>1, <2>2, LinesDiffer DEF Base, Resting
    <2>4. \A ev : ~Held(ev) /\ ~OnWire(1, ev)
      BY <1>2, <2>1, LinesDiffer DEF Held, OnWire, Resting
    <2>5. \A ev \in ChangeEvents : ~Held(ev)'
      BY <2>2 DEF Held
    <2> QED BY <2>3, <2>4, <2>5
  <1>3. ASSUME NEW name \in Names, wire[1] = EventLine(name)
        PROVE  Moves
    <2>1. Resting /\ wire[1].tag = "event"
      BY <1>3, LineTags DEF Shape, InStep
    <2>2. parser'.eventName = name /\ parser'.eventBody = <<>>
      <3>1. parser' = [buffer |-> "empty", eventName |-> name,
                       eventBody |-> parser.eventBody]
        BY <1>3, ParseLine
      <3> QED BY <2>1, <3>1 DEF Resting
    <2>3. Base' = Base
      <3>1. wire' # <<>> /\ wire'[1] = wire[2]
        BY <1>1, <2>1
      <3>2. EventLine(name) = EventLine("put") <=> name = "put"
        BY LineTags
      <3>3. parser.eventName # "put"
        BY <2>1 DEF Resting
      <3> QED BY <1>1, <1>3, <2>2, <3>1, <3>2, <3>3 DEF Base
    <2>4. \A ev : ~Held(ev) /\ ~OnWire(1, ev)
      BY <1>3, <2>1, LinesDiffer DEF Held, OnWire, Resting
    <2>5. \A ev \in ChangeEvents : ~Held(ev)'
      BY <2>2 DEF Held
    <2> QED BY <2>3, <2>4, <2>5
  <1>4. ASSUME NEW part \in PartSet, wire[1] = DataLine(part)
        PROVE  Moves
    <2>1. /\ wire[1].tag = "data" /\ wire[1].part = part /\ wire' # <<>>
          /\ wire[1] # EventLine("put")
      BY <1>1, <1>4, LineTags, LinesDiffer
    <2>2. PICK ev \in StreamEvents : ev = part.of
      BY PartCases
    <2>3. /\ parser.eventName = ev.name
          /\ part.n = 1 => parser.eventBody = <<>>
          /\ part.n = 2 => ev.name = "put" /\ parser.eventBody = <<First(ev)>>
      BY <2>1, <2>2 DEF Shape, InStep, NameIs
    <2>4. /\ parser'.eventName = parser.eventName
          /\ parser'.eventBody = Append(parser.eventBody, part)
      <3>1. parser' = [buffer |-> "empty", eventName |-> parser.eventName,
                       eventBody |-> Append(parser.eventBody, part)]
        BY <1>4, ParseLine
      <3> QED BY <3>1
    <2>5. CASE part.n = 1
      <3>1. part = First(ev) /\ parser.eventBody = <<>>
        BY <2>2, <2>3, <2>5, PartCases
      <3>2. Append(<<>>, part) = <<part>>
        OBVIOUS
      <3>3. parser'.eventBody # <<>> /\ parser'.eventBody[1] = part
        BY <2>4, <3>1, <3>2, Singleton
      <3>4. Base' = Base
        BY <1>1, <2>1, <2>4, <3>1, <3>3 DEF Base
      <3>5. \A x : ~Held(x) /\ (OnWire(1, x) <=> x = ev)
        BY <1>4, <3>1, PartLines DEF Held, OnWire
      <3>6. \A x \in ChangeEvents : Held(x)' <=> x = ev
        BY <3>1, <3>3, PartIs DEF Held
      <3> QED BY <3>4, <3>5, <3>6
    <2>6. CASE part.n = 2
      <3>1. part = Second(ev) /\ parser.eventBody = <<First(ev)>> /\ ev.name = "put"
        BY <2>2, <2>3, <2>6, PartCases
      <3>2. parser.eventBody # <<>> /\ parser.eventBody[1] = First(ev)
        BY <3>1, Singleton
      <3>3. parser'.eventBody # <<>> /\ parser'.eventBody[1] = First(ev)
        <4>1. parser'.eventBody = <<First(ev), part>>
          BY <2>4, <3>1, AppendOne
        <4> QED BY <4>1
      <3>4. Base' = Base
        BY <1>1, <2>1, <2>4, <3>2, <3>3 DEF Base
      <3>5. ev \notin ChangeEvents
        BY <3>1, EventTypes
      <3>6. \A x \in ChangeEvents : ~Held(x) /\ ~OnWire(1, x)
        BY <1>4, <3>1, <3>2, <3>5, PartLines, PartIs DEF Held, OnWire
      <3>7. \A x \in ChangeEvents : ~Held(x)'
        BY <3>3, <3>5, PartIs DEF Held
      <3> QED BY <3>4, <3>6, <3>7
    <2> QED BY <2>5, <2>6, PartCases
  <1> QED BY <1>1, <1>2, <1>3, <1>4, LineCases

\* The blank line is read and the event is handled.
LEMMA EventBrought ==
  ASSUME TypeOK, Shape, Shape', clean, ChangesOrdered, BaseComplete, BaseBehind, LDi_onEvent
  PROVE  ChangesOrdered' /\ BaseComplete' /\ BaseBehind'
  <1>1. /\ conn = "open" /\ conn' = conn /\ wire # <<>> /\ wire' = Tail(wire)
        /\ Dispatches(parser, Head(wire)) /\ Handle(Sent) /\ server' = server
        /\ parser' = LDi_processLine(parser, Head(wire))
    BY DEF LDi_onEvent
  <1>2. /\ wire[1] = Blank /\ Head(wire) = wire[1] /\ Sent \in StreamEvents
        /\ parser.eventName = Sent.name
        /\ parser.eventBody # <<>> /\ parser.eventBody[1] = First(Sent)
    BY <1>1, SentType
  <1>3. PICK ev \in StreamEvents :
          /\ ev = Sent /\ parser.eventName = ev.name
          /\ parser.eventBody[1].of = ev /\ Handle(ev)
    BY <1>1, <1>2, PartIs
  <1>4. parser'.eventName = Null /\ parser'.eventBody = <<>>
    <2>1. parser' = [buffer |-> "empty", eventName |-> Null, eventBody |-> <<>>]
      BY <1>1, <1>2, ParseLine
    <2> QED BY <2>1
  <1>5. /\ \A x : Held(x) <=> x = ev
        /\ \A x : ~OnWire(1, x)
        /\ \A x \in ChangeEvents : ~Held(x)'
    BY <1>2, <1>3, <1>4, LinesDiffer DEF Held, OnWire
  <1>6. ChangesOrdered'
    BY <1>1, <1>5, ShiftOrdered
  <1>7. Base' = store'
    <2>1. wire' # <<>> => wire'[1] # EventLine("put")
      BY <1>1, TailShape DEF Shape
    <2>2. parser'.eventName # "put"
      BY <1>4
    <2> QED BY <2>1, <2>2 DEF Base
  <1>8. CASE ev.name = "put"
    <2>1. store' = ev.data
      BY <1>3, <1>8 DEF Handle
    <2>2. Base = ev.data
      BY <1>2, <1>3, <1>8, LinesDiffer DEF Base
    <2>3. ev \notin ChangeEvents
      BY <1>8, EventTypes
    <2>4. \A x \in ChangeEvents : Held(x) \/ OnWire(1, x) => Held(x)'
      BY <1>5, <2>3
    <2>5. Base' = Base
      BY <1>7, <2>1, <2>2
    <2>6. BaseComplete' /\ BaseBehind'
      BY <1>1, <2>4, <2>5, ShiftComplete
    <2> QED BY <1>6, <2>6
  <1>9. CASE ev.name # "put"
    <2>1. /\ ev \in ChangeEvents
          /\ store' = IF Newer(ev.key, ev.item) THEN [store EXCEPT ![ev.key] = ev.item]
                                                ELSE store
      BY <1>3, <1>9, EventTypes DEF Handle
    <2>2. Base = store
      BY <1>2, <1>3, <1>9, LinesDiffer DEF Base
    <2>3. PICK k \in Keys, it \in Item : k = ev.key /\ it = ev.item
      BY <2>1 DEF ChangeEvents
    <2>4. store \in Data /\ server[k] \in Item /\ store[k] \in Item \cup {Null}
      BY DEF TypeOK, Data, Shape, ServerShape
    <2>5. /\ store'[k] = IF Newer(k, it) THEN it ELSE store[k]
          /\ \A k2 \in Keys \ {k} : store'[k2] = store[k2]
      BY <2>1, <2>3, <2>4 DEF Data
    <2>6. it = server[k] \/ (Older(it, k) /\ \E j \in 1..Len(wire) : OnWire(j, Latest(k)))
      BY <1>5, <2>1, <2>3 DEF ChangesOrdered
    <2>7. ASSUME NEW k2 \in Keys, NEW j \in 1..Len(wire), OnWire(j, Latest(k2))
          PROVE  \E i \in 1..Len(wire') : OnWire(i, Latest(k2))'
      <3>1. /\ Len(wire') = Len(wire) - 1 /\ Len(wire) \in Nat /\ Len(wire) >= 1
            /\ \A i \in 1..Len(wire') : wire'[i] = wire[i + 1]
        BY <1>1, TailShape DEF Shape
      <3>2. j # 1
        BY <1>5, <2>7
      <3>3. j - 1 \in 1..Len(wire') /\ (j - 1) + 1 = j
        BY <3>1, <3>2
      <3>4. wire'[j - 1] = wire[j]
        BY <3>1, <3>3
      <3>5. OnWire(j - 1, Latest(k2))'
        BY <1>1, <2>7, <3>4 DEF OnWire, Latest
      <3> QED BY <3>3, <3>5
    <2>8. store[k] # Null => store[k] = server[k] \/ Older(store[k], k)
      BY <2>2 DEF BaseBehind
    <2>9. it = server[k] => store'[k] = server[k]
      <3>1. ASSUME it = server[k], ~Newer(k, it) PROVE store[k] = server[k]
        <4>1. store[k] # Null /\ ~(store[k].version < server[k].version)
          BY <3>1 DEF Newer
        <4> QED BY <2>8, <4>1 DEF Older
      <3> QED BY <2>5, <3>1
    <2>10. BaseComplete'
      <3> SUFFICES ASSUME NEW k2 \in Keys
                   PROVE  \/ Live(store'[k2]) = Live(server'[k2])
                          \/ \E i \in 1..Len(wire') : OnWire(i, Latest(k2))'
        BY <1>7 DEF BaseComplete
      <3>1. CASE k2 = k
        BY <1>1, <2>6, <2>7, <2>9, <3>1
      <3>2. CASE k2 # k
        <4>1. Latest(k2).key = k2
          BY ChangeType DEF Latest, Shape, ServerShape
        <4>2. ~Held(Latest(k2))
          BY <1>5, <2>3, <3>2, <4>1
        <4>3. store'[k2] = store[k2] /\ server'[k2] = server[k2]
          BY <1>1, <2>5, <3>2
        <4> QED BY <2>2, <2>7, <4>2, <4>3 DEF BaseComplete
      <3> QED BY <3>1, <3>2
    <2>11. BaseBehind'
      <3> SUFFICES ASSUME NEW k2 \in Keys, store'[k2] # Null
                   PROVE  store'[k2] = server[k2] \/ Older(store'[k2], k2)
        BY <1>1, <1>7 DEF BaseBehind, Older
      <3>1. CASE k2 = k
        BY <2>5, <2>6, <2>8, <3>1
      <3>2. CASE k2 # k
        <4>1. store'[k2] = store[k2]
          BY <2>5, <3>2
        <4> QED BY <2>2, <4>1 DEF BaseBehind
      <3> QED BY <3>1, <3>2
    <2> QED BY <1>6, <2>10, <2>11
  <1> QED BY <1>8, <1>9

\* The service starts the stream.
LEMMA AcceptBrought ==
  ASSUME Shape, Accept
  PROVE  ChangesOrdered' /\ BaseComplete' /\ BaseBehind'
  <1>1. conn = "connecting" /\ parser' = parser /\ server' = server
        /\ wire' = Lines(Put(LiveData(server)))
    BY DEF Accept
  <1>2. PICK ev \in StreamEvents :
          ev = Put(LiveData(server)) /\ ev.name = "put" /\ ev.data = LiveData(server)
    BY LiveType, ServerData, PutType DEF Shape
  <1>3. /\ wire' \in Seq(LineSet) /\ Len(wire') = 4
        /\ wire'[1] = EventLine("put") /\ wire'[2] = DataLine(First(ev))
        /\ wire'[3] = DataLine(Second(ev)) /\ wire'[4] = Blank
    BY <1>1, <1>2, PutLines
  <1>4. wire' # <<>>
    <2>1. Len(wire') # 0
      BY <1>3
    <2> QED BY <1>3, <2>1, EmptySeq
  <1>5. Base' = LiveData(server)
    <2>1. wire'[2].part = First(ev)
      BY <1>3, LineTags
    <2>2. wire'[2].part.of = ev
      BY <2>1, PartIs
    <2> QED BY <1>2, <1>3, <1>4, <2>2 DEF Base
  <1>6. \A x : ~Held(x)'
    BY <1>1 DEF Shape, BufferShape, Resting, Held
  <1>7. ASSUME NEW i \in 1..Len(wire'), NEW x \in ChangeEvents
        PROVE  ~OnWire(i, x)'
    <2>1. i = 1 \/ i = 2 \/ i = 3 \/ i = 4
      BY <1>3
    <2>2. x # ev
      BY <1>2, EventTypes
    <2> QED BY <1>3, <2>1, <2>2, LinesDiffer, PartLines DEF OnWire
  <1>8. ChangesOrdered'
    BY <1>6, <1>7 DEF ChangesOrdered
  <1>9. ASSUME NEW k \in Keys
        PROVE  /\ Live(Base'[k]) = Live(server'[k])
               /\ Base'[k] # Null => Base'[k] = server'[k]
    <2>1. Base'[k] = Live(server[k])
      BY <1>5 DEF LiveData
    <2> QED BY <1>1, <2>1 DEF Live
  <1>10. BaseComplete' /\ BaseBehind'
    BY <1>9 DEF BaseComplete, BaseBehind
  <1> QED BY <1>8, <1>10

\* The data stay when lines are added.
LEMMA SendBase ==
  ASSUME Shape, conn = "open", UNCHANGED <<parser, store>>, wire' # <<>>,
         Len(wire) \in Nat, \A i \in 1..Len(wire) : wire'[i] = wire[i],
         wire # <<>> => wire'[1] = wire[1],
         wire = <<>> => wire'[1] # EventLine("put")
  PROVE  Base' = Base
  <1>1. CASE wire # <<>> /\ wire[1] = EventLine("put")
    <2>1. Len(wire) >= 2
      BY <1>1, BaseCases, LinesDiffer, LineTags
    <2>2. wire'[2] = wire[2]
      BY <2>1
    <2> QED BY <1>1, <2>2 DEF Base
  <1>2. CASE ~(wire # <<>> /\ wire[1] = EventLine("put")) /\ parser.eventName # "put"
    BY <1>2 DEF Base
  <1>3. CASE ~(wire # <<>> /\ wire[1] = EventLine("put")) /\ parser.eventName = "put"
    <2>1. wire # <<>>
      BY <1>3, BaseCases
    <2> QED BY <1>3, <2>1 DEF Base
  <1> QED BY <1>1, <1>2, <1>3

LEMMA HeartbeatBrought ==
  ASSUME Shape, Heartbeat, ChangesOrdered, BaseComplete, BaseBehind
  PROVE  ChangesOrdered' /\ BaseComplete' /\ BaseBehind'
  <1>1. /\ conn = "open" /\ wire = <<>> /\ wire' = <<Comment>>
        /\ UNCHANGED <<parser, server, store>>
    BY DEF Heartbeat
  <1>2. /\ wire' # <<>> /\ wire'[1] = Comment /\ Len(wire) = 0 /\ Len(wire') = 1
    BY <1>1, Singleton
  <1>3. Base' = Base
    BY <1>1, <1>2, SendBase, LinesDiffer
  <1>4. Resting
    BY <1>1 DEF Shape, InStep
  <1>5. \A x : ~Held(x) /\ ~Held(x)'
    BY <1>1, <1>4 DEF Held, Resting
  <1>6. \A i \in 1..Len(wire') : \A x : ~OnWire(i, x)'
    BY <1>2, LinesDiffer DEF OnWire
  <1>7. ChangesOrdered'
    BY <1>5, <1>6 DEF ChangesOrdered
  <1>8. \A k \in Keys : Live(Base[k]) = Live(server[k])
    BY <1>2, <1>5 DEF BaseComplete
  <1>9. BaseComplete'
    BY <1>1, <1>3, <1>8 DEF BaseComplete
  <1>10. BaseBehind'
    BY <1>1, <1>3 DEF BaseBehind, Older
  <1> QED BY <1>7, <1>9, <1>10

LEMMA ChangeBrought ==
  ASSUME TypeOK, Shape, NEW k \in Keys, NEW deleted \in BOOLEAN, ServerChange(k, deleted),
         conn = "open", ChangesOrdered, BaseComplete, BaseBehind
  PROVE  ChangesOrdered' /\ BaseComplete' /\ BaseBehind'
  <1>1. UNCHANGED <<conn, parser, store>>
    BY DEF ServerChange
  <1>2. PICK it \in Item :
          /\ it.version = server[k].version + 1 /\ server' = [server EXCEPT ![k] = it]
          /\ wire' = wire \o Lines(Change(k, it))
    BY NextItem DEF Shape
  <1>3. PICK new \in ChangeEvents : new = Change(k, it) /\ new.key = k /\ new.item = it
    BY ChangeType
  <1>4. /\ Len(wire') = Len(wire) + 3 /\ Len(wire) \in Nat
        /\ \A i \in 1..Len(wire) : wire'[i] = wire[i]
        /\ wire'[Len(wire) + 1] = EventLine(new.name)
        /\ wire'[Len(wire) + 2] = DataLine(First(new))
        /\ wire'[Len(wire) + 3] = Blank
        /\ wire' # <<>>
        /\ wire # <<>> => wire'[1] = wire[1]
        /\ wire = <<>> => wire'[1] = EventLine(new.name)
    BY <1>1, <1>2, <1>3, ChangeSent
  <1>5. Base' = Base /\ Base \in Data
    <2>1. EventLine(new.name) # EventLine("put")
      BY EventTypes, LineTags
    <2>2. Base' = Base
      BY <1>1, <1>4, <2>1, SendBase
    <2> QED BY <2>2, BaseType
  <1>6. /\ server'[k] = it /\ \A k2 \in Keys \ {k} : server'[k2] = server[k2]
        /\ \A k2 \in Keys : server[k2] \in Item
    BY <1>2 DEF Shape, ServerShape
  <1>7. Latest(k)' = new /\ \A k2 \in Keys \ {k} : Latest(k2)' = Latest(k2)
    BY <1>3, <1>6 DEF Latest
  <1>8. PICK p \in 1..Len(wire') : p = Len(wire) + 2 /\ OnWire(p, Latest(k))'
    BY <1>4, <1>7 DEF OnWire
  <1>9. ASSUME NEW old \in Item, NEW k2 \in Keys, old = server[k2] \/ Older(old, k2)
        PROVE  /\ k2 = k => Older(old, k2)'
               /\ k2 # k => (Older(old, k2) <=> Older(old, k2)')
    <2>1. old.version \in Int /\ server[k].version \in Int
      BY <1>6 DEF Item
    <2>2. CASE k2 = k
      <3>1. old.version < server[k].version + 1
        BY <1>9, <2>1, <2>2 DEF Older
      <3> QED BY <1>2, <1>6, <2>2, <3>1 DEF Older
    <2>3. CASE k2 # k
      BY <1>6, <2>3 DEF Older
    <2> QED BY <2>2, <2>3
  <1>10. ASSUME NEW k2 \in Keys, k2 # k, NEW j \in 1..Len(wire), OnWire(j, Latest(k2))
         PROVE  j \in 1..Len(wire') /\ OnWire(j, Latest(k2))'
    <2>1. j \in 1..Len(wire') /\ wire'[j] = wire[j]
      BY <1>4
    <2> QED BY <1>7, <1>10, <2>1 DEF OnWire
  <1>11. \A ev \in ChangeEvents : ev.key \in Keys /\ ev.item \in Item
    BY DEF ChangeEvents
  <1>12. ASSUME NEW ev \in ChangeEvents, NEW i \in 0..Len(wire),
                \/ ev.item = server[ev.key]
                \/ /\ Older(ev.item, ev.key)
                   /\ \E j \in (i + 1)..Len(wire) : OnWire(j, Latest(ev.key))
         PROVE  \/ ev.item = server'[ev.key]
                \/ /\ Older(ev.item, ev.key)'
                   /\ \E j \in (i + 1)..Len(wire') : OnWire(j, Latest(ev.key))'
    <2>1. CASE ev.key = k
      <3>1. Older(ev.item, ev.key)'
        BY <1>9, <1>11, <1>12, <2>1
      <3>2. p \in (i + 1)..Len(wire')
        BY <1>4, <1>8
      <3>3. OnWire(p, Latest(ev.key))'
        BY <1>8, <2>1
      <3> QED BY <3>1, <3>2, <3>3
    <2>2. CASE ev.key # k /\ ev.item = server[ev.key]
      BY <1>6, <1>11, <2>2
    <2>3. CASE ev.key # k /\ ev.item # server[ev.key]
      <3>1. PICK j \in (i + 1)..Len(wire) : OnWire(j, Latest(ev.key))
        BY <1>12, <2>3
      <3>2. j \in 1..Len(wire) /\ j \in (i + 1)..Len(wire')
        BY <1>4
      <3>3. OnWire(j, Latest(ev.key))'
        BY <1>10, <1>11, <2>3, <3>1, <3>2
      <3>4. Older(ev.item, ev.key)'
        BY <1>9, <1>11, <1>12, <2>3
      <3> QED BY <3>2, <3>3, <3>4
    <2> QED BY <2>1, <2>2, <2>3
  <1>13. ChangesOrdered'
    <2>1. ASSUME NEW i \in 1..Len(wire'), NEW ev \in ChangeEvents, OnWire(i, ev)'
          PROVE  \/ ev.item = server'[ev.key]
                 \/ /\ Older(ev.item, ev.key)'
                    /\ \E j \in (i + 1)..Len(wire') : OnWire(j, Latest(ev.key))'
      <3>1. CASE i <= Len(wire)
        <4>1. i \in 1..Len(wire) /\ i \in 0..Len(wire) /\ OnWire(i, ev)
          BY <1>4, <2>1, <3>1 DEF OnWire
        <4> QED BY <1>12, <4>1 DEF ChangesOrdered
      <3>2. CASE i > Len(wire)
        <4>1. i = Len(wire) + 1 \/ i = Len(wire) + 2 \/ i = Len(wire) + 3
          BY <1>4, <3>2
        <4>2. i = Len(wire) + 2
          BY <1>4, <2>1, <4>1, LinesDiffer DEF OnWire
        <4>3. ev = new
          BY <1>4, <2>1, <4>2, PartLines DEF OnWire
        <4> QED BY <1>3, <1>6, <4>3
      <3> QED BY <1>4, <3>1, <3>2
    <2>2. ASSUME NEW ev \in ChangeEvents, Held(ev)'
          PROVE  \/ ev.item = server'[ev.key]
                 \/ /\ Older(ev.item, ev.key)'
                    /\ \E j \in 1..Len(wire') : OnWire(j, Latest(ev.key))'
      <3>1. Held(ev) /\ 0 \in 0..Len(wire) /\ 0 + 1 = 1
        BY <1>1, <1>4, <2>2 DEF Held
      <3> QED BY <1>12, <3>1 DEF ChangesOrdered
    <2> QED BY <2>1, <2>2 DEF ChangesOrdered
  <1>14. BaseComplete'
    <2> SUFFICES ASSUME NEW k2 \in Keys
                 PROVE  \/ Live(Base'[k2]) = Live(server'[k2])
                        \/ Held(Latest(k2))'
                        \/ \E i \in 1..Len(wire') : OnWire(i, Latest(k2))'
      BY DEF BaseComplete
    <2>1. CASE k2 = k
      BY <1>8, <2>1
    <2>2. CASE k2 # k
      <3>1. Held(Latest(k2)) => Held(Latest(k2))'
        BY <1>1, <1>7, <2>2 DEF Held
      <3>2. server'[k2] = server[k2]
        BY <1>6, <2>2
      <3> QED BY <1>5, <1>10, <2>2, <3>1, <3>2 DEF BaseComplete
    <2> QED BY <2>1, <2>2
  <1>15. BaseBehind'
    <2> SUFFICES ASSUME NEW k2 \in Keys, Base[k2] # Null
                 PROVE  Base[k2] = server'[k2] \/ Older(Base[k2], k2)'
      BY <1>5 DEF BaseBehind, Older
    <2>1. PICK old \in Item : old = Base[k2]
      BY <1>5 DEF Data
    <2>2. old = server[k2] \/ Older(old, k2)
      BY <2>1 DEF BaseBehind
    <2>3. old = server'[k2] \/ Older(old, k2)'
      BY <1>6, <1>9, <2>2
    <2> QED BY <1>5, <2>1, <2>3 DEF Older
  <1> QED BY <1>13, <1>14, <1>15

\* One step of Next on what is on the way.
LEMMA StepBrought ==
  ASSUME IInv, [Next]_vars
  PROVE  Brought'
  <1> SUFFICES ASSUME clean', conn' = "open"
               PROVE  ChangesOrdered' /\ BaseComplete' /\ BaseBehind'
    BY DEF Brought
  <1>1. TypeOK /\ Shape /\ Brought /\ Shape'
    BY StepShape DEF IInv
  <1>2. CASE Accept
    BY <1>1, <1>2, AcceptBrought
  <1>3. CASE ~Accept
    <2>1. /\ conn = "open" /\ clean' = clean
          /\ \/ ReceivePart \/ ReceiveLine \/ LDi_onEvent \/ Heartbeat
             \/ \E k \in Keys, deleted \in BOOLEAN : ServerChange(k, deleted)
             \/ PollWait \/ PollConnectFails \/ Tick \/ UNCHANGED vars
      BY <1>3 DEF Next, Poll, PollTimeout, PollWait, PollConnect, PollConnectFails, Receive,
             ReceivePart, ReceiveLine, LDi_onEvent, LDi_onEventFails, ReceiveErrorBody, Finish, done,
             NetworkThreadEnds, Service, ServerChange, Heartbeat, ConnectionDies, Tick,
             vars, netVars, historyVars
    <2>2. ChangesOrdered /\ BaseComplete /\ BaseBehind /\ clean
      BY <1>1, <2>1 DEF Brought
    <2>3. CASE PollWait \/ PollConnectFails \/ Tick \/ UNCHANGED vars \/ ReceivePart
      <3>1. /\ UNCHANGED <<wire, server, store>>
            /\ parser'.eventName = parser.eventName /\ parser'.eventBody = parser.eventBody
        <4>1. CASE ReceivePart
          <5>1. parser' = PartOfLine(parser) /\ UNCHANGED <<wire, server, store>>
            BY <4>1 DEF ReceivePart
          <5> QED BY <1>1, <5>1 DEF PartOfLine, Shape, ParserShape
        <4>2. CASE PollWait \/ PollConnectFails \/ Tick \/ UNCHANGED vars
          BY <4>2 DEF PollWait, PollConnectFails, Tick, vars, netVars
        <4> QED BY <2>3, <4>1, <4>2
      <3>2. Base' = Base
        BY <3>1 DEF Base
      <3> QED BY <2>2, <3>1, <3>2 DEF ChangesOrdered, BaseComplete, BaseBehind, OnWire,
                                      Held, Latest, Older
    <2>4. CASE LDi_onEvent
      BY <1>1, <2>2, <2>4, EventBrought
    <2>5. CASE Heartbeat
      BY <1>1, <2>2, <2>5, HeartbeatBrought
    <2>6. CASE \E k \in Keys, deleted \in BOOLEAN : ServerChange(k, deleted)
      BY <1>1, <2>1, <2>2, <2>6, ChangeBrought
    <2>7. CASE ReceiveLine
      <3>1. /\ wire # <<>> /\ wire' = Tail(wire) /\ UNCHANGED <<conn, server, store>>
        BY <2>7 DEF ReceiveLine
      <3>2. Head(wire) = wire[1]
        BY <1>1, <3>1, HeadTail DEF Shape, WireShape
      <3>3. parser.buffer # "garbage"
        BY <1>1, <2>1, <2>2 DEF Shape, BufferShape
      <3>4. ~Dispatches(parser, wire[1]) /\ parser' = LDi_processLine(parser, wire[1])
        BY <2>7, <3>2, <3>3 DEF ReceiveLine, Received
      <3>5. wire[1] # Blank
        <4> SUFFICES ASSUME wire[1] = Blank PROVE FALSE
          OBVIOUS
        <4>1. PICK ev \in StreamEvents : NameIs(ev.name) /\ parser.eventBody = Parts(ev)
          BY <1>1, <2>1, <3>1, LineTags DEF Shape, InStep
        <4>2. parser.eventName = ev.name /\ ev.name \in Names /\ Parts(ev) # <<>>
          BY <2>2, <4>1, EventTypes, PartsAre DEF NameIs
        <4> QED BY <3>4, <4>1, <4>2 DEF Dispatches, Names
      <3> QED BY <1>1, <2>1, <2>2, <3>1, <3>4, <3>5, ReadBrought
    <2> QED BY <2>1, <2>3, <2>4, <2>5, <2>6, <2>7
  <1> QED BY <1>2, <1>3

-----------------------------------------------------------------------------
(* A clean stream delivers.                                                 *)

\* When everything sent on a clean stream is read, nothing is on the way and
\* the data are those of the store.
LEMMA ReadThrough == Shape /\ Brought => CleanStreamUpToDate
  <1> SUFFICES ASSUME Shape, Brought, clean, conn = "open", wire = <<>>
               PROVE  LiveData(store) = LiveData(server)
    BY DEF CleanStreamUpToDate, UpToDate
  <1>1. Resting
    BY DEF Shape, InStep
  <1>2. Base = store
    BY <1>1 DEF Base, Resting
  <1>3. \A x : ~Held(x)
    BY <1>1 DEF Held, Resting
  <1>4. Len(wire) = 0
    OBVIOUS
  <1>5. \A k \in Keys : Live(store[k]) = Live(server[k])
    BY <1>2, <1>3, <1>4 DEF Brought, BaseComplete
  <1> QED BY <1>5 DEF LiveData

\* Real-time updates, for every number of keys, versions and lines on the way:
\* once LDi_streamWriteCallback has read what the service sent on a stream that
\* began with an empty buffer, the store has the data of the service, in
\* whatever pieces it came, however many changes overtook the put and whatever
\* the streams before left in the store.
THEOREM CleanStreamsDeliver == Spec => []CleanStreamUpToDate
  <1>1. Init => IInv
    BY InitShape DEF IInv, Init, Brought
  <1>2. IInv /\ [Next]_vars => IInv'
    BY StepShape, StepBrought DEF IInv
  <1>3. IInv => CleanStreamUpToDate
    BY ReadThrough DEF IInv
  <1> QED BY <1>1, <1>2, <1>3, PTL DEF Spec
=============================================================================
