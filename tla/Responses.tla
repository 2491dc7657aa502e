----------------------------- MODULE Responses ------------------------------
(***************************************************************************)
(* What an error of the service becomes: the code the client gets, and the *)
(* reason in the audit record.  An error is the set of the sentinels that  *)
(* errors.Is finds in its chain; {} is no error, and an error that wraps   *)
(* no sentinel of the service is {"error"}.  A table lists the cases of a  *)
(* switch in their order.                                                  *)
(***************************************************************************)
EXTENDS Integers, Sequences

\* The first case of rows that matches err, or what default says.
FirstMatch(err, rows, default) ==
  LET hits == {i \in 1..Len(rows) : rows[i][1] \cap err # {}} IN
  IF hits = {} THEN default
               ELSE rows[CHOOSE i \in hits : \A j \in hits : i <= j][2]

\* internalError: the code without the text.
internalError == "Internal"

\* The answers of Handler.Register, Login and Verify.
registerErrorToConnect(err) ==
  FirstMatch(err, << <<{"UserExists"}, "AlreadyExists">>,
                     <<{"InvalidEmail", "PasswordTooShort", "PasswordTooLong"}, "InvalidArgument">> >>,
             internalError)

loginErrorToConnect(err) ==
  FirstMatch(err, << <<{"InvalidCredentials"}, "Unauthenticated">> >>, internalError)

verifyErrorToConnect(err) ==
  FirstMatch(err, << <<{"InvalidCredentials"}, "Unauthenticated">> >>, internalError)

\* Mutant: storage errors end in the case of a failed exchange.
oauthErrorToConnectLumped(err) ==
  FirstMatch(err, << <<{"OAuthEmailRequired", "OAuthEmailUnverified", "OAuthLinkDisabled",
                        "OAuthAccountHasPassword"}, "FailedPrecondition">> >>, "Unauthenticated")

oauthErrorToConnect(err) ==
  FirstMatch(err, << <<{"OAuthDisabled"}, "Unimplemented">>,
                     <<{"OAuthProviderUnknown"}, "InvalidArgument">>,
                     <<{"RedirectURINotAllowed"}, "PermissionDenied">>,
                     <<{"OAuthStateInvalid", "OAuthExchangeFailed"}, "Unauthenticated">>,
                     <<{"OAuthEmailRequired", "OAuthEmailUnverified", "OAuthLinkDisabled",
                        "OAuthAccountHasPassword"}, "FailedPrecondition">> >>, internalError)

walletErrorToConnect(err) ==
  FirstMatch(err, << <<{"WalletDisabled"}, "Unimplemented">>,
                     <<{"WalletChainUnsupported", "WalletAddressInvalid"}, "InvalidArgument">>,
                     <<{"WalletChallengeInvalid"}, "Unauthenticated">> >>, internalError)

patErrorToConnect(err) ==
  FirstMatch(err, << <<{"PATDisabled"}, "Unimplemented">>,
                     <<{"PATNameRequired", "PATNameTooLong", "PATExpiryInvalid"}, "InvalidArgument">>,
                     <<{"PATNotFound"}, "NotFound">>,
                     <<{"PATLimitReached"}, "ResourceExhausted">> >>, internalError)

\* The reasons of the audit records.
registerFailureReason(err) ==
  FirstMatch(err, << <<{"UserExists"}, "user_exists">>,
                     <<{"InvalidEmail"}, "invalid_email">>,
                     <<{"PasswordTooShort"}, "password_too_short">>,
                     <<{"PasswordTooLong"}, "password_too_long">> >>, "internal_error")

\* A *CredentialsError carries its own reason.
CredentialsReasons == {"unknown_user", "no_password", "bad_password", "malformed_credentials"}

loginFailure(err) ==
  CASE err \cap CredentialsReasons # {} -> CHOOSE x \in err \cap CredentialsReasons : TRUE
    [] "InvalidCredentials" \in err /\ err \cap CredentialsReasons = {} -> "invalid_credentials"
    [] OTHER -> "internal_error"

oauthFailureReason(err) ==
  FirstMatch(err, << <<{"OAuthDisabled"}, "oauth_disabled">>,
                     <<{"OAuthProviderUnknown"}, "unknown_provider">>,
                     <<{"RedirectURINotAllowed"}, "redirect_uri_not_allowed">>,
                     <<{"OAuthStateInvalid"}, "invalid_state">>,
                     <<{"OAuthExchangeFailed"}, "exchange_failed">>,
                     <<{"OAuthEmailRequired"}, "email_missing">>,
                     <<{"OAuthEmailUnverified"}, "email_unverified">>,
                     <<{"OAuthLinkDisabled"}, "link_disabled">>,
                     <<{"OAuthAccountHasPassword"}, "account_has_password">> >>, "internal_error")

walletFailureReason(err) ==
  FirstMatch(err, << <<{"WalletDisabled"}, "wallet_disabled">>,
                     <<{"WalletChainUnsupported"}, "unsupported_chain">>,
                     <<{"WalletAddressInvalid"}, "invalid_address">>,
                     <<{"WalletChallengeInvalid"}, "invalid_challenge">> >>, "internal_error")
=============================================================================
