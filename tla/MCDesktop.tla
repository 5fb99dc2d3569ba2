----------------------------- MODULE MCDesktop -----------------------------
(* DesktopRuntime beside one other process over the same directory. *)
EXTENDS DesktopRuntime

CONSTANTS d, h

MCDownloads == <<d>>
MCTable == <<h>>
=============================================================================
