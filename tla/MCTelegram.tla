----------------------------- MODULE MCTelegram -----------------------------
(* The Telegram proxy on a small instance: clients and requests as model    *)
(* values, two exits, two ports.                                             *)
EXTENDS TelegramProxy

CONSTANTS a, b, r1, r2
=============================================================================
