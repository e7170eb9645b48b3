------------------------------- MODULE Codec --------------------------------
(***************************************************************************)
(* What becomes of values between a caller and a method, and of an address *)
(* on its way to wait_conn (src/rpc_utils.cc, include/rpc_utils.h,         *)
(* include/server.inl, src/common.cc).                                     *)
(*                                                                         *)
(* A behaviour is one call - encode the request, decode it, convert the    *)
(* arguments, run the method, encode the reply, decode it - or one address *)
(* that run_server takes apart.  What ServerRpc abstracts to the forms of  *)
(* a request and the ends of a method is here a value.                     *)
(*                                                                         *)
(* A value is a JSON value, a std::any or a C++ value alike, and a tree: a *)
(* function from paths to nodes.  <<>> is the path of the root, and        *)
(* <<i>> \o q that of node q of item i; the keys of an object are 1, 2,... *)
(* A node is a type and a number: which scalar (0 for "", false and null), *)
(* or how many items.  JSON has no word for two kinds of C++ values: a     *)
(* double that is not finite, and a string that is not UTF-8 ("bytes").    *)
(*                                                                         *)
(* A read past the end of a vector is undefined: it ends the process, or   *)
(* gives whatever is in memory there.                                      *)
(***************************************************************************)
EXTENDS Integers, SequencesExt

CONSTANTS
  Top,        \* 2^(w-1) for an int of w bits; a JSON integer has more
  Values,     \* the values that callers pass
  Types,      \* the types of parameters
  MaxArgs,    \* arguments of a call, parameters of a method
  Stray,      \* the values that may be in memory past the end of a vector
  StrayTexts, \* the texts that may be there
  Chars,      \* the characters of a text
  Addresses   \* what run_server is given: user, host, port and virtual host

JsonTypes == {"null", "bool", "int", "float", "string", "array", "object"}
NodeTypes == JsonTypes \cup {"nonfinite", "bytes"}
Container(p) == p.t \in {"array", "object"}

\* Does v have the shape of a value?
Tree(v) ==
  /\ v = [p \in DOMAIN v |-> v[p]]
  /\ <<>> \in DOMAIN v /\ DOMAIN v \subseteq Seq(Nat)
  /\ \A p \in DOMAIN v :
       /\ v[p] \in [t : NodeTypes, n : Int]
       /\ Container(v[p]) => \A i \in 1..v[p].n : Append(p, i) \in DOMAIN v

ASSUME SizesAssumption == Top \in Nat \ {0} /\ MaxArgs \in Nat
ASSUME ValuesAssumption == \A v \in Values \cup Stray : Tree(v)

\* A text is a sequence of characters.  The host and the user of an address are free of
\* the characters that end them.
Digits == {"1", "2"}
ASSUME CharsAssumption == Digits \cup {"a", "@", ":", "/"} \subseteq Chars
ASSUME AddressesAssumption ==
  \A a \in Addresses :
    /\ a \in [user : Seq(Chars), host : Seq(Chars), port : Seq(Digits), vhost : Seq(Chars)]
    /\ a.host # <<>> /\ ToSet(a.host) \cap {"@", ":", "/"} = {}
    /\ "@" \notin ToSet(a.user)
ASSUME StrayTextsAssumption == StrayTexts \subseteq Seq(Chars)

Leaf(t, n) == [p \in {<<>>} |-> [t |-> t, n |-> n]]
Null == Leaf("null", 0)
Num(n) == Leaf("int", n)
Str(n) == Leaf("string", n)

\* The path q of item i, from the root.
Below(i, q) == <<i>> \o q
ItemPaths(items) == UNION {{Below(i, q) : q \in DOMAIN items[i]} : i \in DOMAIN items}
Node(t, items) ==
  [p \in {<<>>} \cup ItemPaths(items) |->
     IF p = <<>> THEN [t |-> t, n |-> Len(items)] ELSE items[Head(p)][Tail(p)]]
Array(items) == Node("array", items)
Object(items) == Node("object", items)

Type(v) == v[<<>>].t
Item(v, i) ==
  [q \in {Tail(p) : p \in {p \in DOMAIN v : p # <<>> /\ Head(p) = i}} |-> v[Below(i, q)]]
Items(v) == [i \in 1..v[<<>>].n |-> Item(v, i)]

\* dump(): a double that is not finite is written as null; text that is not UTF-8 is a
\* type_error.
Written(node) == IF node.t = "nonfinite" THEN [t |-> "null", n |-> 0] ELSE node
Dumped(v) == [p \in DOMAIN v |-> Written(v[p])]
Dumpable(v) == \A p \in DOMAIN v : v[p].t # "bytes"

\* What [i] of a vector gives.
Read(vector, i) == IF i \in DOMAIN vector THEN {vector[i]} ELSE Stray

\* A method: its parameters, and how it ends: a runtime_error has a text, none, or one
\* that is not UTF-8.  An unregistered name has no end.
Ends ==
  {"returns", "void", "runtime_error", "blank_error", "foreign_error", "exception", "unknown"}
Upto(S, n) == UNION {[1..k -> S] : k \in 0..n}

VARIABLES
  at,         \* the step that comes next
  method,     \* the method's parameters and end
  given,      \* the arguments the caller gives
  own,        \* was the request made by rpc_encode_req?
  frame,      \* the body of the request, an array
  args, kws,  \* what rpc_decode_req makes of it
  vals,       \* the tuple of get_tuple
  returned,   \* history: the value the method returned
  res,        \* res.error, and res.result, an array; <<>> is the text ""
  reply,      \* the body of the reply, an array
  outcome,    \* the error and the value that Caller::call decodes
  address,    \* the address, and the host and the port found in it
  target,
  fault       \* why the process died, or "none"

callVars == <<method, given>>
frameVars == <<own, frame>>
requestVars == <<args, kws>>
addressVars == <<address, target>>
vars == <<at, callVars, frameVars, requestVars, vals, returned, res, reply, outcome,
          addressVars, fault>>

NoAddress == [user |-> <<>>, host |-> <<>>, port |-> <<>>, vhost |-> <<>>]
Nowhere == [host |-> <<>>, port |-> <<>>]

Init ==
  /\ \/ /\ at = "encode_req"
        /\ method \in [params : Upto(Types, MaxArgs), end : Ends]
        /\ given \in Upto(Values, MaxArgs)
        /\ own = TRUE
        /\ address = NoAddress
     \/ /\ at = "address"
        /\ method = [params |-> <<>>, end |-> "void"]
        /\ given = <<>>
        /\ own = FALSE
        /\ address \in Addresses
  /\ frame = <<>>
  /\ args = <<>> /\ kws = <<>>
  /\ vals = <<>>
  /\ returned = Null
  /\ res = [error |-> 0, result |-> <<>>]
  /\ reply = <<>>
  /\ outcome = [error |-> 0, value |-> Null]
  /\ target = Nowhere
  /\ fault = "none"

Goto(l) == at' = l /\ UNCHANGED fault
Terminate(why) == at' = "died" /\ fault' = why

-----------------------------------------------------------------------------
(* The request.                                                            *)

MsgId == Str(1)
Meth == Str(2)

EncodeReq(vs) ==
  <<Num(0), MsgId, Meth, Array([i \in DOMAIN vs |-> Dumped(vs[i])]), Object(<<>>)>>

\* A call whose arguments cannot be dumped throws, and sends nothing.
RpcEncodeReq ==
  /\ at = "encode_req"
  /\ \/ /\ \A i \in DOMAIN given : Dumpable(given[i])
        /\ frame' = EncodeReq(given)
        /\ Goto("decode_req")
     \/ /\ \E i \in DOMAIN given : ~Dumpable(given[i])
        /\ Goto("not_encoded")
        /\ UNCHANGED frame
  /\ UNCHANGED <<callVars, own, requestVars, vals, returned, res, reply, outcome, addressVars>>

\* Clients of other makes: a frame that is cut short, or has another element.
Foreign(f) ==
  {SubSeq(f, 1, k) : k \in 0..4} \cup
  {[f EXCEPT ![i] = v] :
     i \in 1..5, v \in {Null, Num(1), Str(3), Array(<<>>), Object(<<Null>>)}}

ForeignReq ==
  /\ at = "encode_req"
  /\ given = <<>>
  /\ own' = FALSE
  /\ frame' \in Foreign(EncodeReq(given))
  /\ Goto("decode_req")
  /\ UNCHANGED <<callVars, requestVars, vals, returned, res, reply, outcome, addressVars>>

\* Fault variant: an integer that is too large becomes the largest.
Saturate(n) == IF n < -Top THEN -Top ELSE IF n >= Top THEN Top - 1 ELSE n

\* element.get<int>()
Truncate(n) ==
  LET low == n % (2 * Top)
  IN  IF low < Top THEN low ELSE low - 2 * Top

\* _parse_json_element, which goes through all of the tree.
ParseElement(v) ==
  [p \in DOMAIN v |-> IF v[p].t = "int" THEN [v[p] EXCEPT !.n = Truncate(@)] ELSE v[p]]

\* The elements that rpc_decode_req reads have the types it casts them to.
Decodable(f) ==
  \A i \in 1..5 :
    i \in DOMAIN f => Type(f[i]) = <<"int", "string", "string", "array", "object">>[i]

\* The asserts: the type of the message, and its id.
Asserted(f) == Len(f) >= 5 /\ f[1] = Num(0) /\ f[2] = MsgId

\* json_loadb and rpc_decode_req.  A build with its asserts off goes on with what the
\* others refuse; a frame that is cut short is read past its end.
RpcDecodeReq ==
  /\ at = "decode_req"
  /\ LET data == [i \in DOMAIN frame |-> ParseElement(frame[i])]
     IN  \/ /\ Decodable(data)
            /\ \E a \in Read(data, 4), k \in Read(data, 5) :
                 /\ Type(a) = "array" /\ args' = Items(a)
                 /\ Type(k) = "object" /\ kws' = Items(k)
            /\ Goto("find")
         \/ /\ ~(Decodable(data) /\ Asserted(data))
            /\ Terminate("malformed")
            /\ UNCHANGED requestVars
  /\ UNCHANGED <<callVars, frameVars, vals, returned, res, reply, outcome, addressVars>>

-----------------------------------------------------------------------------
(* The method: _rpc_worker from the check of the keywords to the reply.    *)

KeywordError == 2    \* "Invalid parameter passing mode<k: v>"
MethodError == 3     \* what() of the method's runtime_error
ForeignError == 4    \* what(), when it is not UTF-8

Failed(e) == [error |-> e, result |-> <<Null>>]

\* Keyword arguments are refused; an unknown name leaves res.result "".
Find ==
  /\ at = "find"
  /\ \/ kws # <<>> /\ res' = Failed(KeywordError) /\ Goto("send_reply")
     \/ kws = <<>> /\ method.end = "unknown" /\ UNCHANGED res /\ Goto("send_reply")
     \/ kws = <<>> /\ method.end # "unknown" /\ UNCHANGED res /\ Goto("get_tuple")
  /\ UNCHANGED <<callVars, frameVars, requestVars, vals, returned, reply, outcome, addressVars>>

\* data.type() is the type of the parameter
Held(a, p) == Type(a) = p.t /\ (Container(p) => p.of = "any")

\* Fault variant: the items of a container are not looked at.
AnyContainer(a, p) == Type(a) = p.t

\* The items of a std::any container have the type a typed container needs.
Transforms(a, p) ==
  Type(a) = p.t /\ \A i \in DOMAIN Items(a) : Type(Items(a)[i]) = p.of

\* getv: the argument, item by item if need be.  A scalar of another type leaves the
\* parameter as it was initialised; a container of another type is a bad_any_cast.
Accepts(a, p) == Container(p) => Held(a, p) \/ Transforms(a, p)
GetV(a, p) == IF Container(p) \/ Held(a, p) THEN a ELSE Leaf(p.t, 0)

\* get_tuple and callproxy: past the end of the arguments if there are more parameters;
\* further arguments are dropped.
GetTuple ==
  /\ at = "get_tuple"
  /\ LET params == method.params
     IN  \/ \E data \in [DOMAIN params -> ToSet(args) \cup Stray] :
              /\ \A i \in DOMAIN params : data[i] \in Read(args, i)
              /\ \/ /\ \A i \in DOMAIN params : Accepts(data[i], params[i])
                    /\ vals' = [i \in DOMAIN params |-> GetV(data[i], params[i])]
                    /\ Goto("invoke")
                 \/ /\ \E i \in DOMAIN params : ~Accepts(data[i], params[i])
                    /\ Terminate("bad_any_cast")
                    /\ UNCHANGED vals
         \/ /\ Len(params) > Len(args)
            /\ Terminate("past_the_end")
            /\ UNCHANGED vals
  /\ UNCHANGED <<callVars, frameVars, requestVars, returned, res, reply, outcome, addressVars>>

\* What a method may return: a value of its own, which may be wider than an int or not
\* be JSON, or an argument.
Results ==
  {Num(2 * Top + 1), Array(<<Null, Num(1)>>), Leaf("nonfinite", 1), Leaf("bytes", 1)}
    \cup ToSet(vals)

\* The text of a caught runtime_error.
What(end) ==
  CASE end = "runtime_error" -> MethodError
    [] end = "blank_error" -> 0
    [] end = "foreign_error" -> ForeignError

\* The method runs, and its result is dumped: what dump() throws ends the process, as
\* any other exception of the method.  call_helper returns 0 for void.
Invoke ==
  /\ at = "invoke"
  /\ \/ /\ method.end \in {"returns", "void"}
        /\ returned' \in IF method.end = "void" THEN {Num(0)} ELSE Results
        /\ \/ /\ Dumpable(returned')
              /\ res' = [error |-> 0, result |-> <<Dumped(returned')>>]
              /\ Goto("send_reply")
           \/ /\ ~Dumpable(returned')
              /\ Terminate("exception")
              /\ UNCHANGED res
     \/ /\ method.end \in {"runtime_error", "blank_error", "foreign_error"}
        /\ res' = Failed(What(method.end))
        /\ Goto("send_reply")
        /\ UNCHANGED returned
     \/ /\ method.end = "exception"
        /\ Terminate("exception")
        /\ UNCHANGED <<returned, res>>
  /\ UNCHANGED <<callVars, frameVars, requestVars, vals, reply, outcome, addressVars>>

-----------------------------------------------------------------------------
(* The reply.                                                              *)

\* Fault variant: the array is sent instead of what is in it.
WholeResult(r) == <<Num(1), MsgId, Str(r.error), Array(r.result)>>

\* json::array({type, msgid, error, json::parse(result)[0]})
EncodeRep(r) == <<Num(1), MsgId, Str(r.error), r.result[1]>>

\* Outside of the try: "" is not JSON, and an error that is not UTF-8 cannot be dumped.
SendReply ==
  /\ at = "send_reply"
  /\ \/ /\ res.result # <<>> /\ res.error # ForeignError
        /\ reply' = EncodeRep(res)
        /\ Goto("decode_rep")
     \/ res.result = <<>> /\ Terminate("parse_error") /\ UNCHANGED reply
     \/ res.error = ForeignError /\ Terminate("dump_error") /\ UNCHANGED reply
  /\ UNCHANGED <<callVars, frameVars, requestVars, vals, returned, res, outcome, addressVars>>

\* The error of a reply, if it is a string.
ErrorOf(data) == IF Type(data[3]) = "string" THEN data[3][<<>>].n ELSE 0

\* rpc_decode_rep, and the end of Caller::call.
RpcDecodeRep ==
  /\ at = "decode_rep"
  /\ outcome' = [error |-> ErrorOf(reply), value |-> reply[4]]
  /\ Goto("returned")
  /\ UNCHANGED <<callVars, frameVars, requestVars, vals, returned, res, reply, addressVars>>

-----------------------------------------------------------------------------
(* The address.                                                            *)

\* Fault variant: a delimiter ends a piece although there is none.
PushAlways(s, c, d) ==
  IF c # d THEN [s EXCEPT !.token = Append(@, c)]
  ELSE [done |-> Append(s.done, s.token), token |-> <<>>]

\* One character c of the text: a delimiter ends a piece, if there is one.
Char(s, c, d) ==
  IF c # d THEN [s EXCEPT !.token = Append(@, c)]
  ELSE IF s.token = <<>> THEN s
  ELSE [done |-> Append(s.done, s.token), token |-> <<>>]

\* The pieces between the delimiters, without the empty ones.
SplitStr(str, d) ==
  LET scan[i \in 0..Len(str)] ==
        IF i = 0 THEN [done |-> <<>>, token |-> <<>>] ELSE Char(scan[i - 1], str[i], d)
  IN  Char(scan[Len(str)], d, d).done

\* Piece i, or <<>> if there are fewer: no piece is empty.
Piece(str, d, i) ==
  LET pieces == SplitStr(str, d)
  IN  IF i <= Len(pieces) THEN pieces[i] ELSE <<>>

\* What [i] gives of a vector of pieces: past the end, any text.
ReadText(piece) == IF piece = <<>> THEN StrayTexts ELSE {piece}

Text(a) ==
  <<"a", ":", "/", "/">>
    \o (IF a.user = <<>> THEN <<>> ELSE Append(a.user, "@"))
    \o a.host
    \o (IF a.port = <<>> THEN <<>> ELSE <<":">> \o a.port)
    \o <<"/">> \o a.vhost

\* Fault variant: the user is not cut off.
FromStart(str) == str
ConnSp(str) == Piece(str, "@", 2)

\* A port that is not a number is an exception.
PortNumber(p) == p # <<>> /\ p[1] \in Digits

\* The first lines of run_server.
SplitAddress ==
  /\ at = "address"
  /\ \E conn_sp \in ReadText(ConnSp(Text(address))) :
     \E addr \in ReadText(Piece(conn_sp, ":", 1)), hp \in ReadText(Piece(conn_sp, ":", 2)) :
     \E p \in ReadText(Piece(hp, "/", 1)) :
       \/ /\ PortNumber(p)
          /\ target' = [host |-> addr, port |-> p]
          /\ Goto("wait_conn")
       \/ /\ ~PortNumber(p)
          /\ Terminate("no_number")
          /\ UNCHANGED target
       \/ /\ <<>> \in {ConnSp(Text(address)), Piece(conn_sp, ":", 1), Piece(conn_sp, ":", 2),
                       Piece(hp, "/", 1)}
          /\ Terminate("past_the_end")
          /\ UNCHANGED target
  /\ UNCHANGED <<callVars, frameVars, requestVars, vals, returned, res, reply, outcome,
                 address>>

-----------------------------------------------------------------------------
Stopped == at \in {"returned", "not_encoded", "wait_conn", "died"} /\ UNCHANGED vars

Next ==
  \/ RpcEncodeReq \/ ForeignReq \/ RpcDecodeReq \/ Find \/ GetTuple \/ Invoke
  \/ SendReply \/ RpcDecodeRep
  \/ SplitAddress
  \/ Stopped

Spec == Init /\ [][Next]_vars

-----------------------------------------------------------------------------
(* Properties.                                                             *)

IntRange == -Top .. Top - 1
Congruent(v, a) ==
  /\ DOMAIN a = DOMAIN v
  /\ \A p \in DOMAIN v :
       /\ a[p].t = v[p].t
       /\ IF v[p].t = "int"
          THEN a[p].n % (2 * Top) = v[p].n % (2 * Top) /\ a[p].n \in IntRange
          ELSE a[p].n = v[p].n

\* A request that rpc_encode_req made is decoded, and not refused for its keywords.  Its
\* arguments arrive in number, order and shape, scalars unchanged but for integers,
\* which arrive modulo the width of an int, however deep they are, and doubles that are
\* not finite, which arrive as null.
Carried ==
  own =>
    /\ fault # "malformed" /\ res.error # KeywordError
    /\ at \in {"find", "get_tuple", "invoke"} =>
         /\ Len(args) = Len(given)
         /\ \A i \in DOMAIN given : Congruent(Dumped(given[i]), args[i])

HasType(v, p) ==
  /\ Type(v) = p.t
  /\ (Container(p) /\ p.of # "any") => \A i \in DOMAIN Items(v) : Type(Items(v)[i]) = p.of

\* The caller gives every parameter an argument that arrives with the parameter's type.
Fitting ==
  \A i \in DOMAIN method.params :
    i \in DOMAIN given /\ HasType(Dumped(given[i]), method.params[i])

\* Nobody checks a request against the method.  Still a parameter is never set to a value
\* of another type, and one that has an argument gets it or, if it is a scalar and the
\* argument is not of its type, the zero of its type.  A call of the client library that
\* fits the method is neither refused nor fatal, and runs the method with its arguments.
\* Nothing is said of a parameter without an argument: it is read past the end.
RunsWellTyped ==
  /\ at = "invoke" =>
       \A i \in DOMAIN method.params :
         /\ HasType(vals[i], method.params[i])
         /\ i \in DOMAIN args =>
              vals[i] = args[i] \/ (vals[i][<<>>].n = 0 /\ Type(args[i]) # Type(vals[i]))
  /\ own /\ Fitting =>
       /\ fault \notin {"malformed", "bad_any_cast", "past_the_end"}
       /\ at = "invoke" =>
            \A i \in DOMAIN method.params : Congruent(Dumped(given[i]), vals[i])

\* The caller gets an error exactly if the method, or the check of the keywords, threw
\* one with a text.  Otherwise it gets what the method returned, of any width, 0 for
\* void, and null for a double that is not finite and a runtime_error without a text.
CallerSees ==
  at = "returned" =>
    /\ outcome.error # 0 <=> kws # <<>> \/ method.end = "runtime_error"
    /\ outcome.error = 0 => outcome.value = Dumped(returned)

\* Where the runs without a delimiter begin, and which run begins at i.
Begins(str, d) == {i \in DOMAIN str : str[i] # d /\ (i = 1 \/ str[i - 1] = d)}
Rank(str, d, i) == Cardinality({j \in Begins(str, d) : j <= i})

\* p is the whole run that begins at i.
RunAt(str, d, i, p) ==
  /\ p # <<>>
  /\ \A k \in DOMAIN p : i + k - 1 \in DOMAIN str /\ p[k] = str[i + k - 1] /\ p[k] # d
  /\ i + Len(p) \in DOMAIN str => str[i + Len(p)] = d

\* The pieces are the runs without a delimiter, all of them, whole, and in order.
SplitSound ==
  at = "address" =>
    \A d \in {"@", ":", "/"} :
      LET str == Text(address)
          pieces == SplitStr(str, d)
      IN  /\ Len(pieces) = Cardinality(Begins(str, d))
          /\ \A i \in Begins(str, d) : RunAt(str, d, i, pieces[Rank(str, d, i)])

\* run_server probes the host and the port that its address names, and does not die of
\* it, if the address names a user and a port.  AMQP lets an address leave them out:
\* then pieces are read past the end, and nothing is said.
ProbesTheHost ==
  address.user # <<>> /\ address.port # <<>> =>
    /\ at # "died"
    /\ at = "wait_conn" => target = [host |-> address.host, port |-> address.port]
=============================================================================
