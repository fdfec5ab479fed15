--------------------------- MODULE MCInboundDraft ---------------------------
(* The inbound editors and user staging on a small instance.                *)
EXTENDS InboundDraft

CONSTANTS r1, r2

Form(type, listen, port, via) ==
    [tag |-> "i1", type |-> type, listen |-> listen, port |-> port, tls |-> type \in {"naive", "hysteria2"},
     ws |-> FALSE, via |-> via, users |-> {}]

Vless == Form("vless", "::", 443, "none")
Quic  == Form("hysteria2", "", 443, "none")
Naive == Form("naive", "0.0.0.0", 443, "none")
Plain == Form("shadowsocks", "10.0.0.1", 443, "none")
Stream == [Form("vless", "::", 8443, "none") EXCEPT !.ws = TRUE]
Mieru == Form("mieru", "", 8443, "TCP")

At(t, f)     == [f EXCEPT !.tag = t]
With(b, us)  == [b EXCEPT !.users = us]
Ann == [name |-> "ann", cred |-> 1, flow |-> FALSE]
Bob == [name |-> "bob", cred |-> 2, flow |-> FALSE]

Of(s) == [inbounds |-> s, dup |-> FALSE]

MCForms == {Vless, Quic, Naive, Plain, [Naive EXCEPT !.port = 8443]}

\* Two users on a mieru and a naive inbound; the managed SOCKS inbound.
Both  == Of(<<With(At("i1", Mieru), {Ann, Bob}), With(At("i2", Naive), {Ann})>>)
Tele  == Of(<<At(Reserved, Form("socks", "127.0.0.1", 1080, "none"))>>)
Web   == Of(<<At("i1", Stream)>>)

MCStarts == {Both, Tele, Web}
MCTexts  == {Of(<<At("i1", Vless), At("i2", Naive)>>), Of(<<At("i1", Mieru)>>),
             Of(<<At("i1", Quic), With(At("i2", Mieru), {Bob})>>)}
\* What the theorems about the inbounds suppose.
ASSUME InputsHold == StartApart /\ StartServes /\ GivenOnce

MCScopes == {{"inbounds", "text", "publish"}, {"users", "publish"}, {"users", "inbounds"}}

\* Requests differ in nothing but their name.
Interchangeable == Permutations(Requests)
=============================================================================
