----------------------------- MODULE RtpConfig -----------------------------
(***************************************************************************)
(* The sizes of rtp_config.h that more than one part of rtcp.c depends on. *)
(***************************************************************************)
CONSTANTS
    MAX_MEMBERS,    \* RTP_CONFIG_MAX_MEMBERS_PER_SESSION
    BUFFER_LEN      \* RTP_CONFIG_RTCP_ENCODER_BUFFER_LEN
=============================================================================
