-------------------------------- MODULE S3Urls --------------------------------
(***************************************************************************)
(* The addresses of plans and source codes (service/libs/domain/src/s3.ts  *)
(* and service/libs/service/src/shared/s3-urls.ts). A URL is known by what *)
(* the service looks at; NotAUrl stands for a string that new URL refuses  *)
(* and for a body without s3 or without url, which throws as well.         *)
(***************************************************************************)
CONSTANT NotAUrl

Url == [protocol: {"http:", "https:", "ftp:"}, username: BOOLEAN, password: BOOLEAN]

\* The url of a request body, which no decorator of class-validator checks.
RequestUrl == Url \cup {NotAUrl}

ASSUME NotAUrlIsNoUrl == NotAUrl \notin Url

\* Mutant: both parts are wanted where either gives a secret away.
includesBothCredentials(url) == url.username /\ url.password

doesUrlIncludeCredentials(url) == url.username \/ url.password

isHttpOrHttpsProtocol(url) == url.protocol \in {"http:", "https:"}

isValidS3Url(url) ==
  CASE url = NotAUrl                  -> "throws"
    [] ~ isHttpOrHttpsProtocol(url)   -> "invalid_protocol"
    [] doesUrlIncludeCredentials(url) -> "credentials_detected"
    [] OTHER                          -> "right"
=============================================================================
