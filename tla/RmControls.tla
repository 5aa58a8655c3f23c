------------------------------ MODULE RmControls ------------------------------
(***************************************************************************)
(* The RM controls that decode/ioctl_rm.rs knows: for each command the     *)
(* structure decode_cmd_.. copies out of the caller's parameters, and the  *)
(* lists, strings and indirect arrays it then shows.                       *)
(***************************************************************************)
EXTENDS DecodeSteps

Control(t, more) == [need |-> t.size, lens |-> t.lens, more |-> more]

decode_cmd_client_get_addr_space_type ==
    Control(Nv0000CtrlClientGetAddrSpaceTypeParams, <<>>)
decode_cmd_os_unix_get_control_file_descriptor ==
    Control(Nv0000CtrlOsUnixGetControlFileDescriptorParams, <<>>)
decode_cmd_system_get_build_version ==
    Control(Nv0000CtrlSystemGetBuildVersionParams, <<>>)
decode_cmd_client_set_inherited_share_policy ==
    Control(Nv0000CtrlClientSetInheritedSharePolicyParams, <<>>)
decode_cmd_system_get_features ==
    Control(Nv0000CtrlSystemGetFeaturesParams, <<>>)
decode_cmd_system_get_fabric_status ==
    Control(Nv0000CtrlSystemGetFabricStatusParams, <<>>)
decode_cmd_system_get_p2p_caps_matrix ==
    Control(Nv0000CtrlSystemGetP2PCapsMatrixParams, <<PairOfLists(8)>>)
decode_cmd_gpu_get_memop_enable ==
    Control(Nv0000CtrlGpuGetMemopEnableParams, <<>>)
decode_cmd_gpu_get_attached_ids ==
    Control(Nv0000CtrlGpuGetAttachedIdsParams, <<FilteredList(32)>>)
decode_cmd_gpu_get_id_info ==
    Control(Nv0000CtrlGpuGetIdInfoParams, <<FixedText(128)>>)
decode_cmd_gpu_get_id_info_v2 == Control(Nv0000CtrlGpuGetIdInfoV2Params, <<>>)
decode_cmd_gpu_get_probed_ids ==
    Control(Nv0000CtrlGpuGetProbedIdsParams, <<FilteredList(32), FilteredList(32)>>)
decode_cmd_gpu_attach_ids ==
    Control(Nv0000CtrlGpuAttachIdsParams, <<FilteredList(32)>>)
decode_cmd_gpu_get_active_device_ids ==
    Control(Nv0000CtrlGpuGetActiveDeviceIdsParams, <<List(256)>>)
decode_cmd_sync_gpu_boost_group_info ==
    Control(Nv0000SyncGpuBoostGroupInfoParams, <<List(16), BareList(32)>>)
decode_cmd_host_get_caps_v2 == Control(Nv0080CtrlHostGetCapsV2Params, <<>>)
decode_cmd_gpu_get_num_subdevices ==
    Control(Nv0080CtrlGpuGetNumSubdevicesParams, <<>>)
decode_cmd_gpu_get_classlist_v2 ==
    Control(Nv0080CtrlGpuGetClasslistV2Params, <<List(200)>>)
decode_cmd_gpu_get_virtualization_mode ==
    Control(Nv0080CtrlGpuGetVirtualizationModeParams, <<>>)
decode_cmd_fifo_get_channellist ==
    Control(Nv0080CtrlFifoGetChannellistParams, <<Indirect(U32, 2)>>)
decode_cmd_perf_cuda_limit_set_control ==
    Control(Nv0080CtrlPerfCudaLimitControlParams, <<>>)
decode_cmd_fb_get_caps_v2 == Control(Nv0080CtrlFbGetCapsV2Params, <<>>)
decode_cmd_class_engine_id == Control(Nv906fCtrlGetClassEngineIdParams, <<>>)
decode_cmd_gpfifo_get_work_submit_token ==
    Control(Nvc36fCtrlCmdGpfifoGetWorkSubmitTokenParams, <<>>)
decode_cmd_mc_get_arch_info == Control(Nv2080CtrlMcGetArchInfoParams, <<>>)
decode_cmd_gpu_get_info_v2 ==
    Control(Nv2080CtrlGpuGetInfoV2Params, <<List(70)>>)
decode_cmd_gpu_get_name_string ==
    Control(Nv2080CtrlGpuGetNameStringParams, <<>>)
decode_cmd_gpu_get_short_name_string ==
    Control(Nv2080CtrlGpuGetShortNameStringParams, <<>>)
decode_cmd_gpu_get_simulation_info ==
    Control(Nv2080CtrlGpuGetSimulationInfoParams, <<>>)
decode_cmd_gpu_get_engines_v2 ==
    Control(Nv2080CtrlGpuGetEnginesV2Params, <<List(84)>>)
decode_cmd_gpu_query_ecc_status ==
    Control(Nv2080CtrlGpuQueryEccStatusParams, <<FilteredList(41)>>)
decode_cmd_gpu_query_compute_mode_rules ==
    Control(Nv2080CtrlGpuQueryComputeModeRulesParams, <<>>)
decode_cmd_gpu_get_gid_info ==
    Control(Nv2080CtrlGpuGetGidInfoParams, <<BareList(256)>>)
decode_cmd_fb_get_info_v2 ==
    Control(Nv2080CtrlFbGetInfoV2Params, <<List(128)>>)
decode_cmd_bus_get_pci_info == Control(Nv2080CtrlBusGetPciInfoParams, <<>>)
decode_cmd_bus_get_info_v2 ==
    Control(Nv2080CtrlBusGetInfoV2Params, <<List(52)>>)
decode_cmd_bus_get_pci_bar_info ==
    Control(Nv2080CtrlBusGetPciBarInfoParams, <<List(8)>>)
decode_cmd_bus_get_pcie_supported_gpu_atomics ==
    Control(Nv2080CtrlCmdBusGetPcieSupportedGpuAtomicsParams, <<>>)
decode_cmd_bus_get_c2c_info == Control(Nv2080CtrlBusGetC2cInfoParams, <<>>)
decode_cmd_gr_get_info ==
    Control(Nv2080CtrlGrGetInfoParams, <<Indirect(NvxxxxCtrlXxxInfo, 1)>>)
decode_cmd_gr_get_global_sm_order ==
    Control(Nv2080CtrlGrGetGlobalSmOrderParams, <<SampledList(512, MaxCtrlListItems)>>)
decode_cmd_gr_get_caps_v2 == Control(Nv0080CtrlGrGetCapsV2Params, <<>>)
decode_cmd_gr_get_gpc_mask == Control(Nv2080CtrlGrGetGpcMaskParams, <<>>)
decode_cmd_gr_get_tpc_mask == Control(Nv2080CtrlGrGetTpcMaskParams, <<>>)
decode_cmd_gr_set_ctxsw_preemption_mode ==
    Control(Nv2080CtrlGrSetCtxswPreemptionModeParams, <<>>)
decode_cmd_gr_get_ctx_buffer_size ==
    Control(Nv2080CtrlGrGetCtxBufferSizeParams, <<>>)
decode_cmd_ce_get_all_caps ==
    Control(Nv2080CtrlCeGetAllCapsParams, <<FilteredList(64)>>)
decode_cmd_nvlink_get_nvlink_status ==
    Control(Nv2080CtrlNvlinkGetNvlinkStatusParamsPrefix, <<LastOf(U64)>>)
decode_cmd_gsp_get_features == Control(Nv2080CtrlGspGetFeaturesParams, <<>>)
decode_cmd_grmgr_get_gr_fs_info ==
    Control(Nv2080CtrlGrmgrGetGrFsInfoParams, <<SampledList(96, MaxCtrlListItems)>>)
decode_cmd_conf_compute_get_capabilities ==
    Control(NvConfComputeCtrlCmdSystemGetCapabilitiesParams, <<>>)
decode_cmd_gpfifo_schedule == Control(Nva06cCtrlGpfifoScheduleParams, <<>>)
decode_cmd_set_timeslice == Control(Nva06cCtrlTimesliceParams, <<>>)
decode_cmd_preempt == Control(Nva06cCtrlPreemptParams, <<>>)
decode_cmd_debug_set_exception_mask ==
    Control(Nv83deCtrlDebugSetExceptionMaskParams, <<>>)
decode_cmd_perf_boost == Control(Nv2080CtrlPerfBoostParams, <<>>)

decode_known_rm_control ==
    [client_get_addr_space_type |-> decode_cmd_client_get_addr_space_type,
     os_unix_get_control_file_descriptor |-> decode_cmd_os_unix_get_control_file_descriptor,
     system_get_build_version |-> decode_cmd_system_get_build_version,
     client_set_inherited_share_policy |-> decode_cmd_client_set_inherited_share_policy,
     system_get_features |-> decode_cmd_system_get_features,
     system_get_fabric_status |-> decode_cmd_system_get_fabric_status,
     system_get_p2p_caps_matrix |-> decode_cmd_system_get_p2p_caps_matrix,
     gpu_get_memop_enable |-> decode_cmd_gpu_get_memop_enable,
     gpu_get_attached_ids |-> decode_cmd_gpu_get_attached_ids,
     gpu_get_id_info |-> decode_cmd_gpu_get_id_info,
     gpu_get_id_info_v2 |-> decode_cmd_gpu_get_id_info_v2,
     gpu_get_probed_ids |-> decode_cmd_gpu_get_probed_ids,
     gpu_attach_ids |-> decode_cmd_gpu_attach_ids,
     gpu_get_active_device_ids |-> decode_cmd_gpu_get_active_device_ids,
     sync_gpu_boost_group_info |-> decode_cmd_sync_gpu_boost_group_info,
     host_get_caps_v2 |-> decode_cmd_host_get_caps_v2,
     gpu_get_num_subdevices |-> decode_cmd_gpu_get_num_subdevices,
     gpu_get_classlist_v2 |-> decode_cmd_gpu_get_classlist_v2,
     gpu_get_virtualization_mode |-> decode_cmd_gpu_get_virtualization_mode,
     fifo_get_channellist |-> decode_cmd_fifo_get_channellist,
     perf_cuda_limit_set_control |-> decode_cmd_perf_cuda_limit_set_control,
     fb_get_caps_v2 |-> decode_cmd_fb_get_caps_v2,
     class_engine_id |-> decode_cmd_class_engine_id,
     gpfifo_get_work_submit_token |-> decode_cmd_gpfifo_get_work_submit_token,
     mc_get_arch_info |-> decode_cmd_mc_get_arch_info,
     gpu_get_info_v2 |-> decode_cmd_gpu_get_info_v2,
     gpu_get_name_string |-> decode_cmd_gpu_get_name_string,
     gpu_get_short_name_string |-> decode_cmd_gpu_get_short_name_string,
     gpu_get_simulation_info |-> decode_cmd_gpu_get_simulation_info,
     gpu_get_engines_v2 |-> decode_cmd_gpu_get_engines_v2,
     gpu_query_ecc_status |-> decode_cmd_gpu_query_ecc_status,
     gpu_query_compute_mode_rules |-> decode_cmd_gpu_query_compute_mode_rules,
     gpu_get_gid_info |-> decode_cmd_gpu_get_gid_info,
     fb_get_info_v2 |-> decode_cmd_fb_get_info_v2,
     bus_get_pci_info |-> decode_cmd_bus_get_pci_info,
     bus_get_info_v2 |-> decode_cmd_bus_get_info_v2,
     bus_get_pci_bar_info |-> decode_cmd_bus_get_pci_bar_info,
     bus_get_pcie_supported_gpu_atomics |-> decode_cmd_bus_get_pcie_supported_gpu_atomics,
     bus_get_c2c_info |-> decode_cmd_bus_get_c2c_info,
     gr_get_info |-> decode_cmd_gr_get_info,
     gr_get_global_sm_order |-> decode_cmd_gr_get_global_sm_order,
     gr_get_caps_v2 |-> decode_cmd_gr_get_caps_v2,
     gr_get_gpc_mask |-> decode_cmd_gr_get_gpc_mask,
     gr_get_tpc_mask |-> decode_cmd_gr_get_tpc_mask,
     gr_set_ctxsw_preemption_mode |-> decode_cmd_gr_set_ctxsw_preemption_mode,
     gr_get_ctx_buffer_size |-> decode_cmd_gr_get_ctx_buffer_size,
     ce_get_all_caps |-> decode_cmd_ce_get_all_caps,
     nvlink_get_nvlink_status |-> decode_cmd_nvlink_get_nvlink_status,
     gsp_get_features |-> decode_cmd_gsp_get_features,
     grmgr_get_gr_fs_info |-> decode_cmd_grmgr_get_gr_fs_info,
     conf_compute_get_capabilities |-> decode_cmd_conf_compute_get_capabilities,
     gpfifo_schedule |-> decode_cmd_gpfifo_schedule,
     set_timeslice |-> decode_cmd_set_timeslice,
     preempt |-> decode_cmd_preempt,
     debug_set_exception_mask |-> decode_cmd_debug_set_exception_mask,
     perf_boost |-> decode_cmd_perf_boost]
===============================================================================
