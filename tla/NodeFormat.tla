----------------------------- MODULE NodeFormat ----------------------------
(***************************************************************************)
(* The forms a VMess node takes and the conversions between them:          *)
(*   request JSON  json_to_node / node_to_json    vm_node_manager.cpp      *)
(*   v2ray file    build_vmess_outbound            vm_config_builder.cpp   *)
(*                 parse_outbound                  vm_node_manager.cpp     *)
(*   vmess:// link encode / decode                 vm_link_codec.cpp       *)
(*   validate                                      vm_node_validator.cpp   *)
(* and one node that goes through them: posted, edited from the list or    *)
(* from its own page, saved and loaded again, shared as a link, or found   *)
(* in a file or a link somebody else made.                                 *)
(*                                                                         *)
(* Texts are the few values the conversions tell apart: "bad" is one the   *)
(* validator's pattern refuses, "long" a remark of more than 128 bytes.    *)
(* Base64 and JSON are taken as the lossless encodings they are.  A record *)
(* without a field is JSON without it.                                     *)
(***************************************************************************)
EXTENDS Integers, Sequences

CONSTANTS
  Requests,  \* bodies of POST and PUT vmess/nodes
  Links,     \* links made elsewhere
  Outbounds  \* outbounds of a file made elsewhere

\* A request and a link may lack any field; the names are those that are read.
ASSUME FormatAssumption ==
  /\ Requests # {} /\ Links # {} /\ Outbounds # {}
  /\ \A j \in Requests : DOMAIN j \subseteq
       {"address", "port", "id", "aid", "security", "network", "tls", "remark",
        "tcp", "ws", "h2", "quic", "kcp", "tlsc"}
  /\ \A l \in Links : DOMAIN l \subseteq
       {"ps", "add", "port", "id", "aid", "scy", "net", "tls", "type", "host", "path", "sni"}
  /\ \A o \in Outbounds : DOMAIN o \subseteq
       {"address", "port", "id", "aid", "security", "network", "tls", "settings",
        "tlsSettings"}

VARIABLES
  node,   \* the stored node
  source  \* where it came from: "api" if the validator saw it, or "file"

formatVars == <<node, source>>

\* j.value(key, default)
value(j, key, default) == IF key \in DOMAIN j THEN j[key] ELSE default

uint16(n) == n % 65536

-----------------------------------------------------------------------------
(* Requests *)

desensitize_uuid(id) == IF id \in {"", "bad"} THEN "***" ELSE "1234****cdef"

\* A section j[key] that is not there reads as one without fields.
At(j, key) == IF key \in DOMAIN j THEN j[key] ELSE <<>>

tcp_section(c) == [header |-> value(c, "header", "none")]
ws_section(c) == [path |-> value(c, "path", "/"), host |-> value(c, "host", "")]

h2_section(c) == [path |-> value(c, "path", "/"), hosts |-> value(c, "hosts", <<>>)]
quic_section(c) ==
  [security |-> value(c, "security", "none"), key |-> value(c, "key", ""),
   header |-> value(c, "header", "none")]
kcp_section(c) ==
  [tuning |-> value(c, "tuning", "default"), header |-> value(c, "header", "none")]
tls_section(c) ==
  [insecure |-> value(c, "insecure", FALSE), sni |-> value(c, "sni", "")]

\* The port loses what does not fit into 16 bits.
json_to_node(j) ==
  [address |-> value(j, "address", ""), port |-> uint16(value(j, "port", 443)),
   id |-> value(j, "id", ""), aid |-> value(j, "aid", 0),
   security |-> value(j, "security", "auto"), network |-> value(j, "network", "tcp"),
   tls |-> value(j, "tls", "none"), remark |-> value(j, "remark", ""),
   tcp |-> tcp_section(At(j, "tcp")), ws |-> ws_section(At(j, "ws")),
   h2 |-> h2_section(At(j, "h2")), quic |-> quic_section(At(j, "quic")),
   kcp |-> kcp_section(At(j, "kcp")), tlsc |-> tls_section(At(j, "tlsc"))]

\* Every field is written, whatever the network.
node_to_json(n, desensitize_id) ==
  [n EXCEPT !.id = IF desensitize_id THEN desensitize_uuid(@) ELSE @]

-----------------------------------------------------------------------------
(* The validator, for v2ray-core 5 (m_is_v5_core is never changed) *)

ValidSettings(n) ==
  /\ n.network = "tcp" => n.tcp.header \in {"none", "http"}
  /\ n.network = "ws" => n.ws.path # ""
  /\ n.network = "h2" => n.h2.path # ""
  /\ n.network = "quic" => n.quic.security \in {"none", "aes-128-gcm", "chacha20-poly1305"}
  /\ n.network = "kcp" => n.kcp.tuning # "bad"

\* Fault: any text is an id.
validateAnyId(n) ==
  /\ n.address \notin {"", "bad"} /\ n.port # 0 /\ n.id # "" /\ n.aid = 0
  /\ n.security # "bad" /\ n.network \in {"tcp", "ws", "h2", "quic", "kcp"}
  /\ n.tls \in {"none", "tls"} /\ n.remark # "long" /\ ValidSettings(n)

validate(n) ==
  /\ n.address \notin {"", "bad"} /\ n.port # 0 /\ n.id = "uuid" /\ n.aid = 0
  /\ n.security # "bad" /\ n.network \in {"tcp", "ws", "h2", "quic", "kcp"}
  /\ n.tls \in {"none", "tls"} /\ n.remark # "long" /\ ValidSettings(n)

-----------------------------------------------------------------------------
(* The v2ray file *)

\* A text or a list that is empty is not written.
build_settings(n) ==
  CASE n.network = "tcp" -> n.tcp
    [] n.network = "ws" -> IF n.ws.host = "" THEN [path |-> n.ws.path] ELSE n.ws
    [] n.network = "h2" -> IF n.h2.hosts = <<>> THEN [path |-> n.h2.path] ELSE n.h2
    [] n.network = "quic" -> n.quic
    [] n.network = "kcp" -> n.kcp
    [] OTHER -> <<>>

build_tls(n) ==
  IF n.tls # "tls" THEN <<>>
  ELSE IF n.tlsc.sni = "" THEN [insecure |-> n.tlsc.insecure] ELSE n.tlsc

\* There is TLS or there is not.
tls_mode(text) == IF text = "tls" THEN "tls" ELSE "none"

\* Only the settings of the node's own network, and of TLS if it is on; a
\* section that is not written is one without fields.
build_vmess_outbound(n) ==
  [address |-> n.address, port |-> n.port, id |-> n.id, aid |-> n.aid,
   security |-> n.security, network |-> n.network,
   tls |-> tls_mode(n.tls),
   settings |-> build_settings(n), tlsSettings |-> build_tls(n)]

\* Fault: the settings of HTTP/2 are written and never read.
settings_ofNoH2(o, net) ==
  IF net # "h2" /\ value(o, "network", "tcp") = net THEN At(o, "settings") ELSE <<>>

settings_of(o, net) ==
  IF value(o, "network", "tcp") = net THEN At(o, "settings") ELSE <<>>

tls_of(o) == IF tls_mode(value(o, "tls", "none")) = "tls" THEN At(o, "tlsSettings") ELSE <<>>

\* The remark is kept in a file of its own.
parse_outbound(o, remark) ==
  [address |-> value(o, "address", ""), port |-> uint16(value(o, "port", 443)),
   id |-> value(o, "id", ""), aid |-> value(o, "aid", 0),
   security |-> value(o, "security", "auto"), network |-> value(o, "network", "tcp"),
   tls |-> tls_mode(value(o, "tls", "none")), remark |-> remark,
   tcp |-> tcp_section(settings_of(o, "tcp")), ws |-> ws_section(settings_of(o, "ws")),
   h2 |-> h2_section(settings_of(o, "h2")), quic |-> quic_section(settings_of(o, "quic")),
   kcp |-> kcp_section(settings_of(o, "kcp")), tlsc |-> tls_section(tls_of(o))]

-----------------------------------------------------------------------------
(* Links.  A number in a link is a number or a text: <<>> is one that stoi  *)
(* cannot read.                                                             *)

Join(hosts) == IF hosts = <<>> THEN "" ELSE IF Len(hosts) = 1 THEN hosts[1] ELSE "a,b"
Split(host) == IF host = "" THEN <<>> ELSE IF host = "a,b" THEN <<"a", "b">> ELSE <<host>>

NetOf(l) == value(l, "net", "tcp")

Readable(l, key, default) == IF value(l, key, <<>>) = <<>> THEN default ELSE l[key][1]
OrRoot(path) == IF path = "" THEN "/" ELSE path

\* The lists of hosts that are told apart: none, one, and the two a and b, which
\* stand for every longer one.
HostList(hosts) == hosts \in {<<>>, <<"a", "b">>} \/ hosts = <<hosts[1]>>

\* If the node has a list of hosts, each has a name, and no comma in it.
HostsNamed(n) == n.network = "h2" => n.h2.hosts \notin {<<"">>, <<"a,b">>}

\* Where a number is read there is one, or the reader refuses the whole.
ASSUME ValuesAssumption ==
  /\ \A j \in Requests : value(j, "port", 443) \in Int
                         /\ HostList(h2_section(At(j, "h2")).hosts)
  /\ \A l \in Links : Readable(l, "port", 443) \in Int
  /\ \A o \in Outbounds : value(o, "port", 443) \in Int
                          /\ HostList(h2_section(settings_of(o, "h2")).hosts)

\* For a network it does not know type, host and path are left out, and decode
\* then takes what is here the last case.
encode_type(n) ==
  IF n.network \in {"tcp", "quic", "kcp"} THEN n[n.network].header ELSE "none"
encode_host(n) ==
  CASE n.network = "ws" -> n.ws.host
    [] n.network = "h2" -> Join(n.h2.hosts)
    [] n.network = "quic" -> n.quic.security
    [] OTHER -> ""
encode_path(n) ==
  CASE n.network \in {"ws", "h2"} -> n[n.network].path
    [] n.network = "quic" -> n.quic.key
    [] OTHER -> ""
encode_tls(n) == IF n.tls = "tls" THEN "tls" ELSE ""
encode_sni(n) == IF n.tls = "tls" THEN n.tlsc.sni ELSE ""

encode(n) ==
  [ps |-> n.remark, add |-> n.address, port |-> <<n.port>>, id |-> n.id, aid |-> <<n.aid>>,
   scy |-> n.security, net |-> n.network, tls |-> encode_tls(n),
   type |-> encode_type(n), host |-> encode_host(n), path |-> encode_path(n),
   sni |-> encode_sni(n)]

\* Fault: a link without TLS says so with an empty text, and that is kept.
decode_tlsKept(l) == value(l, "tls", "")

decode_tls(l) == IF value(l, "tls", "") = "" THEN "none" ELSE l.tls

\* Fault: the server name of TLS is not read.
decode_tlscNone(l) == tls_section(<<>>)

decode_tlsc(l) ==
  [insecure |-> FALSE,
   sni |-> IF decode_tls(l) = "tls" THEN value(l, "sni", "") ELSE ""]

\* Type, host and path mean what the network makes of them.
decode_tcp(l) == [header |-> IF NetOf(l) = "tcp" THEN value(l, "type", "none") ELSE "none"]
decode_ws(l) ==
  IF NetOf(l) = "ws"
  THEN [path |-> OrRoot(value(l, "path", "")), host |-> value(l, "host", "")]
  ELSE ws_section(<<>>)
decode_h2(l) ==
  IF NetOf(l) = "h2"
  THEN [path |-> OrRoot(value(l, "path", "")), hosts |-> Split(value(l, "host", ""))]
  ELSE h2_section(<<>>)
decode_quic(l) ==
  IF NetOf(l) = "quic"
  THEN [security |-> IF value(l, "host", "") = "" THEN "none" ELSE l.host,
        key |-> value(l, "path", ""), header |-> value(l, "type", "none")]
  ELSE quic_section(<<>>)
decode_kcp(l) ==
  [tuning |-> "default",
   header |-> IF NetOf(l) = "kcp" THEN value(l, "type", "none") ELSE "none"]

decode(l) ==
  [address |-> value(l, "add", ""), port |-> uint16(Readable(l, "port", 443)),
   id |-> value(l, "id", ""), aid |-> Readable(l, "aid", 0),
   security |-> value(l, "scy", "auto"), network |-> NetOf(l), tls |-> decode_tls(l),
   remark |-> value(l, "ps", ""), tcp |-> decode_tcp(l), ws |-> decode_ws(l),
   h2 |-> decode_h2(l), quic |-> decode_quic(l), kcp |-> decode_kcp(l),
   tlsc |-> decode_tlsc(l)]

-----------------------------------------------------------------------------
(* A node's life *)

\* What is read of each request, link and outbound.
Requested == {json_to_node(j) : j \in Requests}
Linked == {decode(l) : l \in Links}
Found == {parse_outbound(o, "") : o \in Outbounds}

FormatInit == node \in Found /\ source = "file"

\* What the validator refuses changes nothing.
Accept(n) ==
  IF validate(n) THEN node' = n /\ source' = "api" ELSE UNCHANGED formatVars

Post == \E n \in Requested : Accept(n)

\* The list shows the id masked, the node's own page shows it.
EditFromList == Accept(json_to_node(node_to_json(node, TRUE)))

EditFromPage == Accept(json_to_node(node_to_json(node, FALSE)))

FromLink == \E n \in Linked : Accept(n)

ShareLink == Accept(decode(encode(node)))

SaveAndReload ==
  /\ node' = parse_outbound(build_vmess_outbound(node), node.remark)
  /\ UNCHANGED source

LoadForeign == node' \in Found /\ source' = "file"

FormatNext ==
  \/ Post \/ EditFromList \/ EditFromPage \/ FromLink \/ ShareLink
  \/ SaveAndReload \/ LoadForeign

FormatSpec == FormatInit /\ [][FormatNext]_formatVars

-----------------------------------------------------------------------------
(* Properties *)

\* A node that came through the API, however often it was saved, shared and
\* edited since, can be handed to v2ray: it has a port, an id that is not the
\* masked one, a known transport and the path that one needs.
Runnable ==
  source = "api" =>
    /\ node.port # 0
    /\ node.id \notin {"", "bad", "***", "1234****cdef"}
    /\ node.network \in {"tcp", "ws", "h2", "quic", "kcp"}
    /\ node.network \in {"ws", "h2"} => node[node.network].path # ""

\* A link made from a node the validator takes is a link the validator takes.
SharedIsAccepted == validate(node) => validate(decode(encode(node)))

\* What v2ray is told of a node is not changed by saving the list, restarting
\* and saving it again, wherever the node came from.
ReloadKeepsWire ==
  [][SaveAndReload => build_vmess_outbound(node') = build_vmess_outbound(node)]_formatVars

\* Neither is it by sharing the node as a link, except for what links have no
\* field for: the tuning of mKCP, "allow insecure", and where one name in the
\* list of hosts, which becomes a text with commas, ends if it has one itself.
LinkKeepsWire ==
  [][ShareLink /\ validate(node) /\ HostsNamed(node) =>
       build_vmess_outbound(node')
       = build_vmess_outbound([node EXCEPT !.tlsc.insecure = FALSE,
                                           !.kcp.tuning = "default"])]_formatVars
=============================================================================
