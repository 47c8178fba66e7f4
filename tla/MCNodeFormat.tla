---------------------------- MODULE MCNodeFormat ---------------------------
(***************************************************************************)
(* Requests, links and outbounds, each with a few fields away from a plain *)
(* one, at least one of every value the conversions tell apart.            *)
(***************************************************************************)
EXTENDS NodeFormat

\* How TLS may be asked for, together with what is asked about it.
TlsModes ==
  {<<"none", [insecure |-> FALSE, sni |-> ""]>>}
  \cup {<<"tls", [insecure |-> b, sni |-> n]>> : b \in BOOLEAN, n \in {"", "s"}}

MCRequests ==
  {[address |-> "ok", id |-> "uuid", port |-> p] : p \in {0, 443, 65535, 65536, 65979}}
  \cup {[address |-> a, id |-> i] : a \in {"ok", "bad"},
                                  i \in {"", "bad", "uuid", "1234****cdef"}}
  \cup {[address |-> "ok", id |-> "uuid", aid |-> 64]}
  \cup {[address |-> "ok", id |-> "uuid", security |-> "bad"]}
  \cup {[address |-> "ok", id |-> "uuid", tls |-> "xtls"]}
  \cup {[address |-> "ok", id |-> "uuid", network |-> "grpc"]}
  \cup {[address |-> "ok", id |-> "uuid", remark |-> r] : r \in {"r", "long"}}
  \cup {[address |-> "ok", id |-> "uuid", tls |-> t[1], tlsc |-> t[2],
         network |-> "tcp", tcp |-> [header |-> h]] :
          h \in {"none", "http", "bad"}, t \in TlsModes}
  \cup {[address |-> "ok", id |-> "uuid", tls |-> t[1], tlsc |-> t[2],
         network |-> "ws", ws |-> [path |-> p, host |-> h]] :
          p \in {"", "/p"}, h \in {"", "a"}, t \in TlsModes}
  \cup {[address |-> "ok", id |-> "uuid", network |-> "ws", ws |-> [host |-> "a"]]}
  \cup {[address |-> "ok", id |-> "uuid", tls |-> t[1], tlsc |-> t[2],
         network |-> "h2", h2 |-> [path |-> p, hosts |-> h]] :
          p \in {"", "/p"}, h \in {<<>>, <<"">>, <<"a">>, <<"a", "b">>}, t \in TlsModes}
  \cup {[address |-> "ok", id |-> "uuid", tls |-> t[1], tlsc |-> t[2],
         network |-> "quic", quic |-> [security |-> s, key |-> k, header |-> h]] :
          s \in {"none", "aes-128-gcm", "bad"}, k \in {"", "k"}, h \in {"none", "srtp"}, t \in TlsModes}
  \cup {[address |-> "ok", id |-> "uuid", tls |-> t[1], tlsc |-> t[2],
         network |-> "kcp", kcp |-> [tuning |-> u, header |-> h]] :
          u \in {"default", "tuned", "bad"}, h \in {"none", "srtp"}, t \in TlsModes}

MCLinks ==
  {[add |-> "ok", id |-> "uuid", port |-> p, aid |-> a] :
     p \in {<<>>, <<0>>, <<443>>, <<65979>>}, a \in {<<>>, <<0>>, <<64>>}}
  \cup {[add |-> "ok", id |-> "uuid", net |-> n, tls |-> t, host |-> h, path |-> "", sni |-> "s"] :
     n \in {"tcp", "ws", "h2", "quic", "kcp", "grpc"}, t \in {"", "none", "tls", "xtls"},
     h \in {"", "a", "a,b"}}

\* A file's outbounds may use a network the gateway does not know.
MCOutbounds ==
  {[address |-> "ok", port |-> 443, id |-> "uuid", aid |-> a, network |-> n] :
     a \in {0, 64}, n \in {"tcp", "ws", "quic", "grpc"}}
  \cup {[address |-> "ok", network |-> "ws", settings |-> [path |-> "", host |-> "a"]]}
=============================================================================
