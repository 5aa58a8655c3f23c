------------------------------- MODULE Layout -------------------------------
(***************************************************************************)
(* The #[repr(C)] structures that the ioctl decoders copy out of the       *)
(* traced process (decode/nvidia.rs, ioctl_rm.rs and ioctl_uvm.rs).  A     *)
(* decoder asks for size_of::<T>() bytes, so what it may read, and whether *)
(* it accepts the size an ioctl declares, follows from these layouts.      *)
(*                                                                         *)
(* A type is its size and alignment in bytes and the lengths of the arrays *)
(* in it; signedness makes no difference here.  Consecutive fields of one  *)
(* type are written as one array.                                          *)
(***************************************************************************)
EXTENDS Integers, Sequences, SequencesExt

U8  == [size |-> 1, align |-> 1, lens |-> {}]
U16 == [size |-> 2, align |-> 2, lens |-> {}]
U32 == [size |-> 4, align |-> 4, lens |-> {}]
U64 == [size |-> 8, align |-> 8, lens |-> {}]

Arr(n, t) == [t EXCEPT !.size = n * t.size, !.lens = @ \cup {n}]

RoundUp(n, align) == ((n + align - 1) \div align) * align

\* Where the last field ends: each field lies at the next multiple of its
\* alignment.
EndOf(fields) ==
    FoldLeft(LAMBDA end, f : RoundUp(end, f.align) + f.size, 0, fields)

AlignOf(fields) ==
    FoldLeft(LAMBDA a, f : IF f.align > a THEN f.align ELSE a, 1, fields)

\* A mutant of SizeOf: the size is not rounded up to the alignment.
SizeOfUnrounded(fields) == EndOf(fields)

SizeOf(fields) == RoundUp(EndOf(fields), AlignOf(fields))

Struct(fields) ==
    [size |-> SizeOf(fields), align |-> AlignOf(fields),
     lens |-> UNION {fields[i].lens : i \in DOMAIN fields}]

-----------------------------------------------------------------------------
(* nvidia.rs: arguments of the escapes, and three RM controls *)

NvPciInfo == Struct(<<U32, Arr(4, U8), Arr(2, U16)>>)
NvIoctlCardInfo ==
    Struct(<<U8, Arr(3, U8), NvPciInfo, U32, U16, Arr(2, U8), Arr(4, U64), U32,
             Arr(10, U8), Arr(2, U8)>>)
NvIoctlRegisterFd == Struct(<<U32>>)
NvIoctlAllocOsEvent == Struct(<<Arr(4, U32)>>)
NvIoctlStatusCode == Struct(<<U32, Arr(2, U8), U16, U32>>)
NvIoctlRmApiVersion == Struct(<<Arr(2, U32), Arr(64, U8)>>)
NvIoctlQueryDeviceIntr == Struct(<<Arr(2, U32)>>)
NvIoctlSysParams == Struct(<<U64>>)
NvIoctlWaitOpenComplete == Struct(<<Arr(2, U32)>>)
NvOfflineAddresses == Struct(<<Arr(64, U64), U32>>)
NvIoctlNumaInfo ==
    Struct(<<Arr(2, U32), Arr(3, U64), U8, Arr(7, U8), NvOfflineAddresses>>)
NvIoctlSetNumaStatus == Struct(<<U32>>)
NvIoctlExportToDmaBufFdPrefix == Struct(<<Arr(5, U32), U64, Arr(2, U8)>>)
NvIoctlXfer == Struct(<<Arr(2, U32), U64>>)
NvOs00Parameters == Struct(<<Arr(4, U32)>>)
NvOs02Parameters == Struct(<<Arr(5, U32), Arr(2, U64), U32>>)
NvIoctlNvos02ParametersWithFd == Struct(<<NvOs02Parameters, U32>>)
NvOs05Parameters == Struct(<<Arr(5, U32)>>)
NvOs21Parameters == Struct(<<Arr(4, U32), U64, Arr(2, U32)>>)
NvOs64Parameters == Struct(<<Arr(4, U32), Arr(2, U64), Arr(3, U32)>>)
NvOs33Parameters == Struct(<<Arr(3, U32), Arr(3, U64), Arr(2, U32)>>)
NvIoctlNvos33ParametersWithFd == Struct(<<NvOs33Parameters, U32>>)
NvOs34Parameters == Struct(<<Arr(3, U32), U64, Arr(2, U32)>>)
NvOs54Parameters == Struct(<<Arr(4, U32), U64, Arr(2, U32)>>)
Nv0000CtrlClientGetAddrSpaceTypeParams == Struct(<<Arr(3, U32)>>)
Nv0000CtrlOsUnixGetControlFileDescriptorParams == Struct(<<U32>>)
Nv0000CtrlSystemGetBuildVersionParams ==
    Struct(<<U32, Arr(3, U64), Arr(2, U32)>>)

-----------------------------------------------------------------------------
(* ioctl_rm.rs: further escapes and the parameters of RM controls *)

RmI2cAccessParams == Struct(<<Arr(3, U32), U64, U32>>)
RmIdleChannelsParams == Struct(<<Arr(4, U32), Arr(3, U64), Arr(3, U32)>>)
RmVidHeapControlPrefix ==
    Struct(<<Arr(4, U32), Arr(2, U16), U32, Arr(2, U64)>>)
RmVidHeapAllocSizeData == Struct(<<Arr(11, U32), Arr(7, U64), Arr(3, U32)>>)
RmVidHeapFreeData == Struct(<<Arr(3, U32)>>)
RmVidHeapAllocOsDescData == Struct(<<Arr(5, U32), Arr(2, U64), U32>>)
RmAccessRegistryParams ==
    Struct(<<Arr(4, U32), U64, U32, U64, U32, U64, Arr(3, U32)>>)
RmAllocContextDma2Params == Struct(<<Arr(8, U32), Arr(2, U64), U32>>)
RmGetEventDataParams == Struct(<<U64, Arr(2, U32)>>)
RmUnixEvent == Struct(<<Arr(3, U32), Arr(2, U16)>>)
RmMapMemoryDmaParams ==
    Struct(<<Arr(4, U32), Arr(2, U64), Arr(4, U32), U64, U32>>)
RmUnmapMemoryDmaParams == Struct(<<Arr(6, U32), Arr(2, U64), U32>>)
RmBindContextDmaParams == Struct(<<Arr(4, U32)>>)
RmDupObjectParams == Struct(<<Arr(7, U32)>>)
RmUpdateDeviceMappingInfoParams == Struct(<<Arr(4, U32), Arr(2, U64), U32>>)
RsAccessMask == Struct(<<Arr(1, U32)>>)
RsSharePolicy == Struct(<<U32, RsAccessMask, U16, Arr(2, U8)>>)
RmShareParams == Struct(<<Arr(2, U32), RsSharePolicy, U32>>)
RmAddVblankCallbackParams ==
    Struct(<<Arr(4, U32), U64, Arr(2, U32), Arr(2, U64), Arr(2, U32)>>)
Nv0000CtrlSystemGetFeaturesParams == Struct(<<U32>>)
Nv0000CtrlClientSetInheritedSharePolicyParams == Struct(<<RsSharePolicy>>)
Nv0000CtrlGpuGetAttachedIdsParams == Struct(<<Arr(32, U32)>>)
Nv0000CtrlGpuGetIdInfoParams == Struct(<<Arr(4, U32), U64, Arr(4, U32)>>)
Nv0000CtrlGpuGetIdInfoV2Params == Struct(<<Arr(8, U32)>>)
Nv0000CtrlGpuGetProbedIdsParams == Struct(<<Arr(3, Arr(32, U32))>>)
Nv0000CtrlGpuAttachIdsParams == Struct(<<Arr(32, U32), U32>>)
Nv0000CtrlGpuActiveDevice == Struct(<<Arr(3, U32)>>)
Nv0000CtrlGpuGetActiveDeviceIdsParams ==
    Struct(<<U32, Arr(256, Nv0000CtrlGpuActiveDevice)>>)
Nv0000CtrlSystemGetFabricStatusParams == Struct(<<U32>>)
Nv0000CtrlGpuGetMemopEnableParams == Struct(<<U32>>)
Nv0000CtrlSystemGetP2PCapsMatrixParams ==
    Struct(<<Arr(2, U32), Arr(2, Arr(8, U32)), Arr(5, Arr(8, Arr(8, U32)))>>)
Nv0080CtrlHostGetCapsV2Params == Struct(<<Arr(3, U8)>>)
Nv0080CtrlGpuGetNumSubdevicesParams == Struct(<<U32>>)
Nv0080CtrlGpuGetClasslistV2Params == Struct(<<U32, Arr(200, U32)>>)
Nv0080CtrlGpuGetVirtualizationModeParams == Struct(<<U32, U8, Arr(3, U8)>>)
Nv0080CtrlFifoGetChannellistParams == Struct(<<U32, Arr(2, U64)>>)
Nv0080CtrlPerfCudaLimitControlParams == Struct(<<U8>>)
Nv0080CtrlFbGetCapsV2Params == Struct(<<Arr(3, U8)>>)
Nv2080CtrlGrRouteInfo == Struct(<<Arr(2, U32), U64>>)
Nv0080CtrlGrGetCapsV2Params ==
    Struct(<<Arr(23, U8), U8, Nv2080CtrlGrRouteInfo, U8, Arr(7, U8)>>)
Nv906fCtrlGetClassEngineIdParams == Struct(<<Arr(4, U32)>>)
Nvc36fCtrlCmdGpfifoGetWorkSubmitTokenParams == Struct(<<U32>>)
Nv2080CtrlMcGetArchInfoParams == Struct(<<Arr(3, U32), U8, Arr(3, U8)>>)
NvxxxxCtrlXxxInfo == Struct(<<Arr(2, U32)>>)
Nv2080CtrlGpuGetInfoV2Params == Struct(<<U32, Arr(70, NvxxxxCtrlXxxInfo)>>)
Nv2080CtrlGpuGetNameStringParams == Struct(<<U32, Arr(128, U8)>>)
Nv2080CtrlGpuGetShortNameStringParams == Struct(<<Arr(64, U8)>>)
Nv2080CtrlGpuGetSimulationInfoParams == Struct(<<U32>>)
Nv2080CtrlGpuGetEnginesV2Params == Struct(<<U32, Arr(84, U32)>>)
Nv2080CtrlGpuQueryComputeModeRulesParams == Struct(<<U32>>)
Nv2080CtrlGpuQueryEccExceptionStatus == Struct(<<U64>>)
Nv2080CtrlGpuQueryEccUnitStatus ==
    Struct(<<Arr(3, U8), Arr(5, U8),
             Arr(4, Nv2080CtrlGpuQueryEccExceptionStatus)>>)
Nv2080CtrlGpuQueryEccStatusParams ==
    Struct(<<Arr(41, Nv2080CtrlGpuQueryEccUnitStatus), Arr(2, U8), Arr(2, U8),
             U32, Nv2080CtrlGrRouteInfo>>)
Nv2080CtrlGpuGetGidInfoParams == Struct(<<Arr(3, U32), Arr(256, U8)>>)
Nv2080CtrlFbGetInfoV2Params == Struct(<<U32, Arr(128, NvxxxxCtrlXxxInfo)>>)
Nv2080CtrlBusGetInfoV2Params == Struct(<<U32, Arr(52, NvxxxxCtrlXxxInfo)>>)
Nv2080CtrlBusGetC2cInfoParams ==
    Struct(<<Arr(2, U8), Arr(2, U8), Arr(6, U32)>>)
Nv2080CtrlBusGetPciInfoParams == Struct(<<Arr(4, U32)>>)
Nv2080CtrlBusPciBarInfo == Struct(<<Arr(2, U32), Arr(2, U64)>>)
Nv2080CtrlBusGetPciBarInfoParams ==
    Struct(<<Arr(2, U32), Arr(8, Nv2080CtrlBusPciBarInfo)>>)
Nv2080CtrlBusPcieGpuAtomicOpInfo == Struct(<<U8, Arr(3, U8), U32>>)
Nv2080CtrlCmdBusGetPcieSupportedGpuAtomicsParams ==
    Struct(<<Arr(2, U32), Arr(13, Nv2080CtrlBusPcieGpuAtomicOpInfo)>>)
Nv2080CtrlGrGetInfoParams ==
    Struct(<<Arr(2, U32), U64, Nv2080CtrlGrRouteInfo>>)
Nv2080CtrlGrGlobalSmId == Struct(<<Arr(9, U16)>>)
Nv2080CtrlGrGetGlobalSmOrderParams ==
    Struct(<<Arr(512, Nv2080CtrlGrGlobalSmId), Arr(2, U16), U32,
             Nv2080CtrlGrRouteInfo>>)
Nv2080CtrlGrGetGpcMaskParams == Struct(<<Nv2080CtrlGrRouteInfo, Arr(2, U32)>>)
Nv2080CtrlGrGetTpcMaskParams == Struct(<<Nv2080CtrlGrRouteInfo, Arr(2, U32)>>)
Nv2080CtrlGrSetCtxswPreemptionModeParams ==
    Struct(<<Arr(4, U32), Nv2080CtrlGrRouteInfo>>)
Nv2080CtrlGrGetCtxBufferSizeParams == Struct(<<Arr(2, U32), U64>>)
Nv2080CtrlCeGetAllCapsParams == Struct(<<Arr(64, Arr(2, U8)), U64>>)
Nv2080CtrlGspGetFeaturesParams ==
    Struct(<<U32, Arr(2, U8), Arr(2, U8), Arr(64, U8)>>)
Nv2080CtrlGrmgrGrFsInfoQueryParams ==
    Struct(<<U16, Arr(2, U8), U32, Arr(3, U32)>>)
Nv2080CtrlGrmgrGetGrFsInfoParams ==
    Struct(<<U16, Arr(6, U8), Arr(96, Nv2080CtrlGrmgrGrFsInfoQueryParams)>>)
Nv2080CtrlNvlinkLinkMask == Struct(<<U8, Arr(7, U8), Arr(1, U64)>>)
Nv2080CtrlNvlinkGetNvlinkStatusParamsPrefix ==
    Struct(<<Arr(2, U32), Nv2080CtrlNvlinkLinkMask, Arr(2, U8)>>)
NvConfComputeCtrlCmdSystemGetCapabilitiesParams == Struct(<<Arr(6, U8)>>)
Nv0000SyncGpuBoostGroupConfig ==
    Struct(<<U32, Arr(32, U32), U32, U8, Arr(3, U8)>>)
Nv0000SyncGpuBoostGroupInfoParams ==
    Struct(<<U32, Arr(16, Nv0000SyncGpuBoostGroupConfig)>>)
Nva06cCtrlGpfifoScheduleParams == Struct(<<Arr(3, U8)>>)
Nva06cCtrlTimesliceParams == Struct(<<U64>>)
Nva06cCtrlPreemptParams == Struct(<<Arr(2, U8), Arr(2, U8), U32>>)
Nv83deCtrlDebugSetExceptionMaskParams == Struct(<<U32>>)
Nv2080CtrlPerfBoostParams == Struct(<<Arr(2, U32)>>)

-----------------------------------------------------------------------------
(* ioctl_uvm.rs: arguments of the UVM ioctls *)

UvmInitializeParams == Struct(<<U64, U32>>)
UvmReserveVaParams == Struct(<<Arr(2, U64), U32>>)
UvmRegionCommitParams == Struct(<<Arr(3, U64), Arr(16, U8), U32>>)
UvmRegionSetStreamParams == Struct(<<Arr(3, U64), Arr(16, U8), U32>>)
UvmSetStreamRunningParams == Struct(<<U64, U32>>)
UvmSetStreamStoppedParams == Struct(<<Arr(32, U64), U64, U32>>)
UvmAddSessionParams == Struct(<<Arr(2, U32)>>)
UvmCounterConfig == Struct(<<Arr(2, U32), Arr(16, U8), U32>>)
UvmEnableCountersParams == Struct(<<Arr(32, UvmCounterConfig), Arr(2, U32)>>)
UvmMapCounterParams == Struct(<<Arr(2, U32), Arr(16, U8), U64, U32>>)
UvmCreateEventQueueParams == Struct(<<U32, Arr(3, U64), Arr(2, U32)>>)
UvmRemoveEventQueueParams == Struct(<<Arr(2, U32)>>)
UvmMapEventQueueParams == Struct(<<U32, Arr(5, U64), U32>>)
UvmEventCtrlParams == Struct(<<Arr(4, U32)>>)
UvmGetGpuUuidTableParams == Struct(<<Arr(32, Arr(16, U8)), Arr(2, U32)>>)
UvmRegionSetBackingParams == Struct(<<Arr(16, U8), U32, Arr(2, U64), U32>>)
UvmRegionUnsetBackingParams == Struct(<<Arr(2, U64), U32>>)
UvmCreateRangeGroupParams == Struct(<<U64, U32>>)
UvmDestroyRangeGroupParams == Struct(<<U64, U32>>)
UvmRegisterGpuVaspaceParams == Struct(<<Arr(16, U8), Arr(4, U32)>>)
UvmUnregisterGpuVaspaceParams == Struct(<<Arr(16, U8), U32>>)
UvmRegisterChannelParams ==
    Struct(<<Arr(16, U8), Arr(3, U32), Arr(2, U64), U32>>)
UvmUnregisterChannelParams == Struct(<<Arr(3, U32)>>)
UvmPeerAccessParams == Struct(<<Arr(2, Arr(16, U8)), U32>>)
UvmSetRangeGroupParams == Struct(<<Arr(3, U64), U32>>)
UvmGpuMappingAttributes == Struct(<<Arr(16, U8), Arr(5, U32)>>)
UvmMapExternalAllocationParams ==
    Struct(<<Arr(3, U64), Arr(256, UvmGpuMappingAttributes), U64,
             Arr(4, U32)>>)
UvmFreeParams == Struct(<<U64, U32>>)
UvmMemMapParams == Struct(<<Arr(2, U64), U32>>)
UvmRegisterGpuParams == Struct(<<Arr(16, U8), U8, Arr(3, U8), Arr(5, U32)>>)
UvmUnregisterGpuParams == Struct(<<Arr(16, U8), U32>>)
UvmPageableMemAccessParams == Struct(<<U8, Arr(3, U8), U32>>)
UvmRangeGroupsParams == Struct(<<Arr(32, U64), U64, U32>>)
UvmSetPreferredLocationParams ==
    Struct(<<Arr(2, U64), Arr(16, U8), Arr(2, U32)>>)
UvmSetAccessedByParams == Struct(<<Arr(2, U64), Arr(16, U8), U32>>)
UvmMigrateParams ==
    Struct(<<Arr(2, U64), Arr(16, U8), U32, U64, Arr(2, U32), Arr(2, U64),
             U32>>)
UvmMigrateRangeGroupParams == Struct(<<U64, Arr(16, U8), U32>>)
UvmGpuUuidParams == Struct(<<Arr(16, U8), U32>>)
UvmToolsInitEventTrackerParams ==
    Struct(<<Arr(3, U64), Arr(16, U8), Arr(3, U32)>>)
UvmToolsSetNotificationThresholdParams == Struct(<<Arr(2, U32)>>)
UvmToolsFlagsParams == Struct(<<U64, U32>>)
UvmToolsReadProcessMemoryParams == Struct(<<Arr(4, U64), U32>>)
UvmToolsWriteProcessMemoryParams == Struct(<<Arr(4, U64), U32>>)
UvmToolsGetProcessorUuidTableParams == Struct(<<U64, U32>>)
UvmBaseLengthGpuUuidParams == Struct(<<Arr(2, U64), Arr(16, U8), U32>>)
UvmAllocSemaphorePoolParams ==
    Struct(<<Arr(2, U64), Arr(256, UvmGpuMappingAttributes), U64, U32>>)
UvmStatusParams == Struct(<<U32>>)
UvmPageableMemAccessOnGpuParams == Struct(<<Arr(16, U8), U8, Arr(3, U8), U32>>)
UvmPopulatePageableParams == Struct(<<Arr(2, U64), Arr(2, U32)>>)
UvmValidateVaRangeParams == Struct(<<Arr(2, U64), U32>>)
UvmCreateExternalRangeParams == Struct(<<Arr(2, U64), U32>>)
UvmMmInitializeParams == Struct(<<Arr(2, U32)>>)
UvmAllocDeviceP2pParams == Struct(<<Arr(3, U64), Arr(16, U8), Arr(4, U32)>>)
UvmDiscardParams == Struct(<<Arr(3, U64), U32>>)
UvmIs8SupportedParams == Struct(<<Arr(2, U32)>>)
=============================================================================
