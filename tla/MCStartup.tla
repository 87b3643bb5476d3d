------------------------------ MODULE MCStartup ------------------------------
(* One field of each kind, and all fields that are compared with another.   *)
EXTENDS Startup

MCSettable ==
    {"proxy_addr", "proto", "cert_path", "key_path", "upstream_proxy", "network",
     "privacy_mode", "max_connections", "max_connections_per_ip", "max_tunnels",
     "max_tunnels_per_ip", "http2_max_concurrent_streams", "tls_reload_interval",
     "auth_max_failures", "http2_ping_timeout", "blocked_destination_ports"}
==============================================================================
