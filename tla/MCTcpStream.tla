----------------------------- MODULE MCTcpStream -----------------------------
(* Instances of TcpStream for TLC.                                          *)
EXTENDS TcpStream

Platforms == {"epoll", "kqueue", "iocp"}
=============================================================================
