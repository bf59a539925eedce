SPECIFICATION StartupSpec
CONSTANTS
    Fields = {"server_port", "max_reconnect_backoff_secs", "kex", "private_key_path", "public_key_path"}
    Unencrypted = {"config file"}
    Unstable = TRUE
    MaxStarts = 2
INVARIANTS Precedence ReconnectsSilently
CHECK_DEADLOCK FALSE
