------------------------------ MODULE Forwarding ------------------------------
(***************************************************************************)
(* What handleHTTP of internal/proxy/server.go passes on of one request    *)
(* and its response, with the rules of headers.go.  The transport reads    *)
(* the request's body while the handler already copies the response, and   *)
(* trailers become known only when a body reaches EOF.  A CONNECT through  *)
(* an upstream passes on a Via header only.                                *)
(*                                                                         *)
(* A header is the set of its names, with what its Connection field lists  *)
(* and whether its TE field has the token "trailers".  A trailer map has   *)
(* keys, of which some have got values; it may be nil.  Whether trailers   *)
(* can travel at all depends on how net/http frames a body.                *)
(***************************************************************************)
EXTENDS Integers, FiniteSets

CONSTANTS
    Headers,        \* headers a client or an origin may send
    TrailerNames,   \* names they may use in trailers, of those net/http lets pass
    HopByHop,       \* hopByHopHeaders
    Private         \* names removePrivacyHeaders removes

ASSUME ForwardingAssumption ==
    /\ Headers \subseteq [names : SUBSET STRING, listed : SUBSET STRING, trailers : BOOLEAN]
    /\ IsFiniteSet(TrailerNames)
    /\ {"Connection", "Te", "Trailer"} \subseteq HopByHop /\ "Via" \in Private
    /\ HopByHop \cap Private = {} /\ "Content-Length" \notin HopByHop \cup Private

Nil == [keys |-> {}, filled |-> {}, nil |-> TRUE]
Map(keys, filled) == [keys |-> keys, filled |-> filled, nil |-> FALSE]
Announcements == {Nil} \cup {Map(T, {}) : T \in (SUBSET TrailerNames) \ {{}}}

VARIABLES
    privacyMode,   \* privacy_mode
    proto,         \* of the client
    header,        \* the client's header
    framing,       \* of the outgoing request: "none", "length" or "chunked"
    body,          \* of the request: "none", "open", "eof", "written" or "failed"
    trailer,       \* outRequest.Trailer, the map it shares with r.Trailer
    said,          \* history: trailers the client announced, and those it sent
    sentHeader, sentTrailers,    \* what the upstream or origin got
    sentNames,     \* names in the Trailer field it got
    response,      \* "start", "waiting", "copying", "copied", "failed" or "done"
    respTrailer,   \* response.Trailer
    announced,     \* announcedTrailers, and the names declared with it
    originHeader,  \* history: the header of the response
    clientHeader, clientTrailers,   \* what the client got
    clientEnd,     \* the end of the body it saw: "none", "complete" or "cut"
    origin         \* history: trailers the origin sent

sentVars     == <<sentHeader, sentTrailers, sentNames>>
requestVars  == <<privacyMode, proto, header, framing, body, trailer, said, sentVars>>
responseVars == <<response, respTrailer, announced, originHeader,
                  clientHeader, clientTrailers, clientEnd, origin>>
forwardVars == <<requestVars, responseVars>>

Protocols == {"HTTP/1.0", "HTTP/1.1", "HTTP/2"}
NoHeader == [names |-> {}, listed |-> {}, trailers |-> FALSE]
FieldNames == (UNION {h.names : h \in Headers}) \cup {"Via", "Te", "Trailer"}
TrailerMaps == [keys : SUBSET TrailerNames, filled : SUBSET TrailerNames, nil : BOOLEAN]

ForwardTypeOK ==
    /\ privacyMode \in BOOLEAN /\ proto \in Protocols
    /\ header \in Headers /\ originHeader \in Headers \cup {NoHeader}
    /\ framing \in {"none", "length", "chunked"}
    /\ body \in {"none", "open", "eof", "written", "failed"}
    /\ trailer \in TrailerMaps /\ respTrailer \in TrailerMaps
    /\ said \in [announced : SUBSET TrailerNames, sent : SUBSET TrailerNames]
    /\ announced \in [count : Nat, names : SUBSET TrailerNames]
    /\ {sentTrailers, sentNames, clientTrailers, origin} \subseteq SUBSET TrailerNames
    /\ {sentHeader, clientHeader} \subseteq SUBSET FieldNames
    /\ response \in {"start", "waiting", "copying", "copied", "failed", "done"}
    /\ clientEnd \in {"none", "complete", "cut"}

ForwardInit ==
    /\ privacyMode \in BOOLEAN
    /\ proto \in Protocols /\ header \in Headers /\ originHeader = NoHeader
    /\ framing = "none" /\ body = "none" /\ trailer = Nil /\ said = [announced |-> {}, sent |-> {}]
    /\ sentHeader = {} /\ sentTrailers = {} /\ sentNames = {}
    /\ response = "start" /\ respTrailer = Nil
    /\ announced = [count |-> 0, names |-> {}]
    /\ clientHeader = {} /\ clientTrailers = {} /\ clientEnd = "none" /\ origin = {}
------------------------------------------------------------------------------
Listed(h) == IF "Connection" \in h.names THEN h.listed ELSE {}

removeHopByHopHeaders(h) == h.names \ (HopByHop \cup Listed(h))

removePrivacyHeaders(names) == IF privacyMode THEN names \ Private ELSE names
FilterMap(m) == [m EXCEPT !.keys = removePrivacyHeaders(@), !.filled = removePrivacyHeaders(@)]

appendVia(names) == IF privacyMode THEN names ELSE names \cup {"Via"}

\* The header of the forwarded request.
outHeader(h) ==
    appendVia(removePrivacyHeaders(removeHopByHopHeaders(h)))
        \cup IF "Te" \in h.names /\ h.trailers THEN {"Te"} ELSE {}

\* viaForRequest and buildConnectRequest: the Via chain travels, if anything.
ForwardConnect ==
    /\ response = "start"
    /\ response' = "done"
    /\ sentHeader' = appendVia({})
    /\ UNCHANGED <<privacyMode, proto, header, framing, body, trailer, said, sentTrailers, sentNames,
                   respTrailer, announced, originHeader, clientHeader, clientTrailers, clientEnd, origin>>

\* External: how the transport frames the client's body.  A length of zero is
\* as good as none for HTTP/1 and unknown for HTTP/2.  HTTP/1.0 has no chunks.
Framings ==
    IF "Content-Length" \in header.names
    THEN {"none", "length"} \cup (IF proto = "HTTP/2" THEN {"chunked"} ELSE {})
    ELSE {"none"} \cup (IF proto = "HTTP/1.0" THEN {} ELSE {"chunked"})

\* Mutant: the outgoing request has a copy of the trailer map.
Forward_CopiesMap(m, f) ==
    /\ response = "start" /\ response' = "waiting"
    /\ f \in Framings /\ (m = Nil \/ f = "chunked" \/ proto = "HTTP/2")
    /\ trailer' = [FilterMap(m) EXCEPT !.nil = TRUE]
    /\ said' = [said EXCEPT !.announced = m.keys]
    /\ framing' = f
    /\ body' = IF f = "none" THEN "none" ELSE "open"
    /\ sentHeader' = outHeader(header)
    /\ sentNames' = IF f = "chunked" THEN trailer'.keys ELSE {}
    /\ UNCHANGED <<privacyMode, proto, header, sentTrailers, respTrailer, announced, originHeader,
                   clientHeader, clientTrailers, clientEnd, origin>>

\* handleHTTP up to the call of Do, and the header the transport writes.
\* External: net/http knows no trailers of an HTTP/1 body without chunks, and
\* announces those of an outgoing body only if that is chunked.
Forward(m, f) ==
    /\ response = "start" /\ response' = "waiting"
    /\ f \in Framings /\ (m = Nil \/ f = "chunked" \/ proto = "HTTP/2")
    /\ trailer' = FilterMap(m)
    /\ said' = [said EXCEPT !.announced = m.keys]
    /\ framing' = f
    /\ body' = IF f = "none" THEN "none" ELSE "open"
    /\ sentHeader' = outHeader(header)
    /\ sentNames' = IF f = "chunked" THEN trailer'.keys ELSE {}
    /\ UNCHANGED <<privacyMode, proto, header, sentTrailers, respTrailer, announced, originHeader,
                   clientHeader, clientTrailers, clientEnd, origin>>

\* External: net/http fills the request's trailer map when the body reaches
\* EOF: HTTP/1 adds to the map, or sets r.Trailer if it was nil, which the
\* outgoing request does not see; HTTP/2 fills announced keys only.
Filled(m, sent) ==
    IF m.nil THEN m
    ELSE IF proto = "HTTP/1.1" THEN Map(m.keys \cup sent, m.filled \cup sent)
    ELSE Map(m.keys, m.filled \cup (sent \cap m.keys))

\* Mutant: the request's trailers are filtered only before they are known.
RequestEOF_NoFilter(sent) ==
    /\ body = "open" /\ body' = "eof"
    /\ response \in {"waiting", "copying", "copied"}
    /\ said' = [said EXCEPT !.sent = sent]
    /\ trailer' = Filled(trailer, sent)
    /\ UNCHANGED <<privacyMode, proto, header, framing, sentVars, responseVars>>

\* privacyTrailerBody.Read returns io.EOF.
RequestEOF(sent) ==
    /\ body = "open" /\ body' = "eof"
    /\ response \in {"waiting", "copying", "copied"}
    /\ said' = [said EXCEPT !.sent = sent]
    /\ trailer' = FilterMap(Filled(trailer, sent))
    /\ UNCHANGED <<privacyMode, proto, header, framing, sentVars, responseVars>>

\* External: the transport then writes what the map holds, if it wrote chunks.
RequestWritten ==
    /\ body = "eof" /\ body' = "written"
    /\ sentTrailers' = IF framing = "chunked" THEN trailer.filled ELSE {}
    /\ UNCHANGED <<privacyMode, proto, header, framing, trailer, said, sentHeader, sentNames, responseVars>>

RequestBodyFails ==
    /\ body = "open" /\ body' = "failed"
    /\ UNCHANGED <<privacyMode, proto, header, framing, trailer, said, sentVars, responseVars>>

\* Do returns an error: writeUpstreamError answers with a body of its own.
RoundTripFails ==
    /\ response = "waiting"
    /\ response' = "done" /\ clientEnd' = "complete"
    /\ UNCHANGED <<requestVars, respTrailer, announced, originHeader, clientHeader, clientTrailers, origin>>

\* The header of the response before its trailers are announced.
backHeader(h) == appendVia(removePrivacyHeaders(removeHopByHopHeaders(h)))

\* The field that announces trailers, if there are any.
announceTrailers(keys) == IF keys = {} THEN {} ELSE {"Trailer"}

\* Mutant: Content-Length is taken for a hop-by-hop field.
ResponseArrives_DropsLength(h, m) ==
    /\ response = "waiting" /\ response' = "copying"
    /\ "Content-Length" \in h.names => m = Nil
    /\ respTrailer' = FilterMap(m)
    /\ announced' = [count |-> Cardinality(respTrailer'.keys), names |-> respTrailer'.keys]
    /\ clientHeader' = (backHeader(h) \ {"Content-Length"})
                           \cup announceTrailers(respTrailer'.keys)
    /\ originHeader' = h
    /\ UNCHANGED <<requestVars, clientTrailers, clientEnd, origin>>

\* Do returns a response: its header is passed on and announceTrailers adds a
\* Trailer field.  Only a chunked body, which has no Content-Length, has them.
ResponseArrives(h, m) ==
    /\ response = "waiting" /\ response' = "copying"
    /\ "Content-Length" \in h.names => m = Nil
    /\ respTrailer' = FilterMap(m)
    /\ announced' = [count |-> Cardinality(respTrailer'.keys), names |-> respTrailer'.keys]
    /\ clientHeader' = backHeader(h) \cup announceTrailers(respTrailer'.keys)
    /\ originHeader' = h
    /\ UNCHANGED <<requestVars, clientTrailers, clientEnd, origin>>

\* io.CopyBuffer reaches the end of the response's body ...
ResponseEOF(sent) ==
    /\ response = "copying" /\ response' = "copied"
    /\ "Content-Length" \in originHeader.names => sent = {}
    /\ origin' = sent
    /\ respTrailer' = Map(respTrailer.keys \cup sent, respTrailer.filled \cup sent)
    /\ UNCHANGED <<requestVars, announced, originHeader, clientHeader, clientTrailers, clientEnd>>

\* ... or fails half way, for the client has gone or the origin broke off, and
\* the handler returns.  External: net/http notices a body shorter than the
\* Content-Length it passed on and cuts the connection, but ends any other
\* body as if it were complete.
ResponseBodyFails ==
    /\ response = "copying" /\ response' = "failed"
    /\ \/ UNCHANGED clientEnd
       \/ clientEnd' = IF "Content-Length" \in clientHeader THEN "cut" ELSE "complete"
    /\ UNCHANGED <<requestVars, respTrailer, announced, originHeader, clientHeader, clientTrailers, origin>>

\* External: at the end net/http takes the declared trailers from w.Header(),
\* where a field of the response may have the same name, and adds keys with
\* http.TrailerPrefix, declared or not.  HTTP/1.0 has no trailers.
FinalTrailers(plain, prefixed) ==
    IF proto = "HTTP/1.0" THEN {}
    ELSE ((clientHeader \cup plain) \cap announced.names) \cup prefixed

\* The end of handleHTTP and copyTrailers, which copies the trailers under
\* their own keys if there are as many as were announced.
Finish ==
    /\ response = "copied" /\ response' = "done"
    /\ respTrailer' = FilterMap(respTrailer)
    /\ clientTrailers' = IF Cardinality(respTrailer'.keys) = announced.count
                         THEN FinalTrailers(respTrailer'.filled, {})
                         ELSE FinalTrailers({}, respTrailer'.filled)
    /\ clientEnd' = "complete"
    /\ UNCHANGED <<requestVars, announced, originHeader, clientHeader, origin>>

ForwardNext ==
    \/ ForwardConnect
    \/ \E m \in Announcements, f \in {"none", "length", "chunked"} : Forward(m, f)
    \/ \E sent \in SUBSET TrailerNames : RequestEOF(sent)
    \/ RequestWritten \/ RequestBodyFails \/ RoundTripFails
    \/ \E h \in Headers, m \in Announcements : ResponseArrives(h, m)
    \/ \E sent \in SUBSET TrailerNames : ResponseEOF(sent)
    \/ ResponseBodyFails \/ Finish

ForwardSpec == ForwardInit /\ [][ForwardNext]_forwardVars
------------------------------------------------------------------------------
\* The names that leave the proxy: in headers, in trailers, which appear with
\* the last byte of a body, and in the Trailer fields that announce those.
NamesSent ==
    sentHeader \cup sentTrailers \cup sentNames
        \cup clientHeader \cup clientTrailers \cup announced.names

\* In privacy mode no name removePrivacyHeaders knows leaves the proxy in
\* either direction, neither in a header nor as a trailer, announced or not,
\* nor with a CONNECT.
NothingPrivatePasses == privacyMode => NamesSent \cap Private = {}

\* A trailer the client announced and sent reaches the upstream with a chunked
\* body, unless privacy mode removes it: the two requests share their map.
AnnouncedTrailersArrive ==
    body = "written" /\ framing = "chunked" =>
        removePrivacyHeaders(said.announced \cap said.sent) \subseteq sentTrailers

\* Every trailer of a complete response reaches a client whose protocol has
\* trailers, announced or not, although copyTrailers only compares how many
\* there are; it gets no others, but for fields of the header by that name.
ResponseTrailersArrive ==
    response = "done" /\ proto # "HTTP/1.0" =>
        /\ removePrivacyHeaders(origin) \subseteq clientTrailers
        /\ clientTrailers \ origin \subseteq clientHeader

\* Trailers survive the proxy in both directions, with and without the filter
\* of privacy mode.
TrailersArrive == AnnouncedTrailersArrive /\ ResponseTrailersArrive

\* A client never takes a response that broke off for a complete one if the
\* origin said how long it is, other than for its own hop: the field passes
\* both filters of handleHTTP, and the early return leaves it unfulfilled.
CutResponseShows ==
    response = "failed" /\ "Content-Length" \in originHeader.names \ Listed(originHeader) =>
        clientEnd # "complete"
==============================================================================
